---- MODULE Spec2Model ----
(***************************************************************************)
(* Platmap Pro: the GeoJSON-to-SVG conversion pipeline                     *)
(* (src/src/converters/geojson_to_svg.py, src/src/utils/transformations.py)*)
(* the marker editor (src/src/gui/svg_editor.py) and the main window       *)
(* (src/src/gui/gui_main.py).                                              *)
(*                                                                         *)
(* Seven specifications share the definitions below:                       *)
(*   SpecFit   the bounds fitter and the two projections as pure functions *)
(*   Spec      one run of geojson_to_svg over a bounded family of inputs   *)
(*   SpecPlans the same run over long lot lists that vary the plan name    *)
(*   SpecRecords the same run over short lists of records of every kind    *)
(*   SpecEdit  an editor session: load, select, drag, swap                 *)
(*   SpecSave  an editor session: load, drag, swap, save, auto-arrange     *)
(*   SpecGui   a main-window session: add, drop, remove, select, run       *)
(***************************************************************************)
EXTENDS Integers, Sequences, FiniteSets, TLC

VARIABLES
    args,       \* SpecFit: the bounding box, canvas and probe point
    fit,        \* the FitTransform of the run (geojson_to_svg locals 35-44)
    proj,       \* SpecFit: the projections of the probe point and corners
    input,      \* the four layer collections the input files hold
    pc,         \* where the run of geojson_to_svg stands, "idle" before a call
    svg_print,  \* the print document (svg_print)
    svg_digital,\* the digital document (svg_digital)
    disk,       \* the two output files, None until written
    error,      \* the exception that ended the run, "" if none
    root,       \* editor: the parsed document (self.root), None before a load
    groups,     \* editor: self.groups, one entry per marker loaded
    report,     \* editor: what the last handler showed or raised, "" if nothing
    loads,      \* editor: the number of files opened so far
    drags,      \* editor: the number of drags so far
    saves,      \* editor: the number of Save Changes so far
    svg_file,   \* editor: self.svg_file and self.output_file, always the same
    svg_files,  \* editor: the content of the files the session can open
    file_paths, \* main window: self.file_paths, a list of paths per file type
    file_list_widgets, \* main window: the items of the four list widgets
    output_file,\* main window: self.output_file, <<>> when none is selected
    run_button, \* main window: whether the Run button is enabled
    message,    \* main window: the box the last Run showed, "" before any
    adds        \* main window: the number of add and drop actions so far

fitVars == <<args, proj>>
runVars == <<input, pc, svg_print, svg_digital, disk, error>>
editVars == <<root, groups, report, loads, drags, saves, svg_file, svg_files>>
guiVars == <<file_paths, file_list_widgets, output_file, run_button, message, adds>>
vars == <<args, fit, proj, input, pc, svg_print, svg_digital, disk, error,
          root, groups, report, loads, drags, saves, svg_file, svg_files,
          file_paths, file_list_widgets, output_file, run_button, message, adds>>

None == [none |-> TRUE]

\* The editor as EditableSVG(None, None) leaves it (svg_editor.py 115-144).
NewEditor ==
    /\ root = None /\ groups = <<>> /\ report = "" /\ loads = 0 /\ drags = 0
    /\ saves = 0 /\ svg_file = None
\* ... with no file for it to open.
IdleEdit == NewEditor /\ svg_files = None
\* ... and no main window.
IdleGui ==
    /\ file_paths = None /\ file_list_widgets = None /\ output_file = None
    /\ run_button = FALSE /\ message = "" /\ adds = 0

(***************************************************************************)
(* Python floats.  The code computes in IEEE-754 binary64: every           *)
(* arithmetic operation returns the representable number nearest to the    *)
(* exact result, ties to the even significand.  The model keeps that       *)
(* semantics at a reduced width: a number is an integer count of units of  *)
(* 2^-FracBits whose significand has at most FloatBits bits.  Overflow to  *)
(* infinity is not reachable for the magnitudes used here.                 *)
(***************************************************************************)
FloatBits == 7
FracBits == 8

Pow2(k) == 2 ^ k
Abs(a) == IF a < 0 THEN 0 - a ELSE a
Sign(a) == IF a < 0 THEN 0 - 1 ELSE 1
\* The number of bits of a > 0, by bisection of lo..hi.
RECURSIVE BitLenIn(_, _, _)
BitLenIn(a, lo, hi) ==
    IF lo = hi THEN lo
    ELSE IF a < Pow2((lo + hi) \div 2) THEN BitLenIn(a, lo, (lo + hi) \div 2)
    ELSE BitLenIn(a, (lo + hi) \div 2 + 1, hi)
BitLen(a) == BitLenIn(a, 1, 30)
\* The number of trailing zero bits of a > 0.
RECURSIVE TrailingZerosFrom(_, _)
TrailingZerosFrom(a, j) == IF a % Pow2(j + 1) # 0 THEN j ELSE TrailingZerosFrom(a, j + 1)
TrailingZeros(a) == TrailingZerosFrom(a, 0)

\* q + rem/den rounded to the nearest multiple of step, ties to the even one.
RoundStep(q, rem, den, step) ==
    LET lo == (q \div step) * step
        twice == 2 * ((q - lo) * den + rem)
        full == step * den
    IN IF twice < full THEN lo
       ELSE IF twice > full THEN lo + step
       ELSE IF (lo \div step) % 2 = 1 THEN lo + step ELSE lo

\* The spacing of the representable numbers around q keeps FloatBits bits.
RoundMag(q, rem, den) ==
    RoundStep(q, rem, den,
              IF q < Pow2(FloatBits) THEN 1 ELSE Pow2(BitLen(q) - FloatBits))

\* The representable number nearest to num/den units (den > 0), ties to even.
RoundUnits(num, den) ==
    Sign(num) * RoundMag(Abs(num) \div den, Abs(num) % den, den)

Mant(x) == IF x = 0 THEN 0 ELSE x \div Pow2(TrailingZeros(Abs(x)))
Expo(x) == IF x = 0 THEN 0 ELSE TrailingZeros(Abs(x))

\* m * 2^e units, and (mx / my) * 2^e units, rounded.
RoundScaled(m, e) ==
    IF e >= 0 THEN RoundUnits(m * Pow2(e), 1) ELSE RoundUnits(m, Pow2(0 - e))
RoundQuotient(mx, my, e) ==
    IF e >= 0 THEN RoundUnits(Sign(my) * mx * Pow2(e), Abs(my))
    ELSE RoundUnits(Sign(my) * mx, Abs(my) * Pow2(0 - e))

FAdd(x, y) == RoundUnits(x + y, 1)
FSub(x, y) == RoundUnits(x - y, 1)
FMul(x, y) == RoundScaled(Mant(x) * Mant(y), Expo(x) + Expo(y) - FracBits)
FDiv(x, y) == RoundQuotient(Mant(x), Mant(y), Expo(x) - Expo(y) + FracBits)
FMin(x, y) == IF y < x THEN y ELSE x

\* Literals: the integer n, and the decimal n/d as the parser rounds it.
Num(n) == RoundUnits(n * Pow2(FracBits), 1)
Dec(n, d) == RoundUnits(n * Pow2(FracBits), d)
\* One unit in the last place of a positive number.
Ulp(x) == IF x < Pow2(FloatBits) THEN 1 ELSE Pow2(BitLen(x) - FloatBits)

(***************************************************************************)
(* Bounds fitter: geojson_to_svg, lines 34-44.                             *)
(***************************************************************************)
FitWrongScale(minx, miny, maxx, maxy, canvas_width, canvas_height) ==
    LET geom_width == FSub(maxx, minx)
        geom_height == FSub(maxy, miny)
        scale_x == FDiv(canvas_width, geom_width)
        scale_y == FDiv(canvas_height, geom_height)
        scale == IF scale_y < scale_x THEN scale_x ELSE scale_y
    IN [minx |-> minx, miny |-> miny, maxy |-> maxy, scale |-> scale,
        x_padding |-> FDiv(FSub(canvas_width, FMul(geom_width, scale)), Num(2)),
        y_padding |-> FDiv(FSub(canvas_height, FMul(geom_height, scale)), Num(2))]

\* The fitter with each padding clamped at zero.
FitClamped(minx, miny, maxx, maxy, canvas_width, canvas_height) ==
    LET geom_width == FSub(maxx, minx)
        geom_height == FSub(maxy, miny)
        scale_x == FDiv(canvas_width, geom_width)
        scale_y == FDiv(canvas_height, geom_height)
        scale == FMin(scale_x, scale_y)
        x_padding == FDiv(FSub(canvas_width, FMul(geom_width, scale)), Num(2))
        y_padding == FDiv(FSub(canvas_height, FMul(geom_height, scale)), Num(2))
    IN [minx |-> minx, miny |-> miny, maxy |-> maxy, scale |-> scale,
        x_padding |-> IF x_padding < 0 THEN 0 ELSE x_padding,
        y_padding |-> IF y_padding < 0 THEN 0 ELSE y_padding]

FitTransform(minx, miny, maxx, maxy, canvas_width, canvas_height) ==
    LET geom_width == FSub(maxx, minx)
        geom_height == FSub(maxy, miny)
        scale_x == FDiv(canvas_width, geom_width)
        scale_y == FDiv(canvas_height, geom_height)
        scale == FMin(scale_x, scale_y)
    IN [minx |-> minx, miny |-> miny, maxy |-> maxy, scale |-> scale,
        x_padding |-> FDiv(FSub(canvas_width, FMul(geom_width, scale)), Num(2)),
        y_padding |-> FDiv(FSub(canvas_height, FMul(geom_height, scale)), Num(2))]

(***************************************************************************)
(* The two projections: transform_coords (used for lot centroids) and the  *)
(* expression inside write_polygon (used for path vertices).               *)
(***************************************************************************)
transform_coords_noflip(x, y, minx, miny, scale, maxy, x_padding, y_padding) ==
    <<FAdd(FMul(FSub(x, minx), scale), x_padding),
      FAdd(FMul(FSub(y, miny), scale), y_padding)>>

transform_coords(x, y, minx, miny, scale, maxy, x_padding, y_padding) ==
    LET scaled_x == FAdd(FMul(FSub(x, minx), scale), x_padding)
        scaled_y == FAdd(FMul(FSub(maxy, y), scale), y_padding)
    IN <<scaled_x, scaled_y>>

write_polygon_point(x, y, minx, maxy, scale, x_padding, y_padding) ==
    <<FAdd(FMul(FSub(x, minx), scale), x_padding),
      FAdd(FMul(FSub(maxy, y), scale), y_padding)>>

(***************************************************************************)
(* SpecFit: the fitter and the projections on bounded inputs.              *)
(***************************************************************************)
MaxGeom == 13
Canvases == {<<1440, 840>>, <<840, 1440>>, <<100, 100>>}
Origins == {0, 3}

FitArgs ==
    { [minx |-> Num(ox), miny |-> Num(oy),
       maxx |-> Num(ox + gw), maxy |-> Num(oy + gh),
       canvas_width |-> Num(c[1]), canvas_height |-> Num(c[2]),
       x |-> Num(ox + px), y |-> Num(oy + py)] :
         ox \in Origins, oy \in {0}, gw \in 1..MaxGeom, gh \in 1..MaxGeom,
         c \in Canvases, px \in {0, 1}, py \in {0, 2} }

InitFit ==
    /\ args \in FitArgs
    /\ fit = None
    /\ proj = None
    /\ input = None /\ pc = "idle" /\ svg_print = None /\ svg_digital = None
    /\ disk = None /\ error = ""
    /\ IdleEdit /\ IdleGui

FitBounds ==
    /\ args # None /\ fit = None
    /\ fit' = FitTransform(args.minx, args.miny, args.maxx, args.maxy,
                           args.canvas_width, args.canvas_height)
    /\ UNCHANGED <<args, proj>>
    /\ UNCHANGED <<runVars, editVars, guiVars>>

Corners(a) == << <<a.minx, a.miny>>, <<a.minx, a.maxy>>,
                 <<a.maxx, a.miny>>, <<a.maxx, a.maxy>> >>

Project ==
    /\ args # None /\ fit # None /\ proj = None
    /\ proj' = [ centroid |-> transform_coords(args.x, args.y, fit.minx, fit.miny,
                                 fit.scale, fit.maxy, fit.x_padding, fit.y_padding),
                 vertex |-> write_polygon_point(args.x, args.y, fit.minx, fit.maxy,
                                 fit.scale, fit.x_padding, fit.y_padding),
                 top |-> transform_coords(args.x, fit.maxy, fit.minx, fit.miny,
                                 fit.scale, fit.maxy, fit.x_padding, fit.y_padding),
                 left |-> transform_coords(fit.minx, args.y, fit.minx, fit.miny,
                                 fit.scale, fit.maxy, fit.x_padding, fit.y_padding),
                 corners |-> [i \in 1..4 |->
                     write_polygon_point(Corners(args)[i][1], Corners(args)[i][2],
                         fit.minx, fit.maxy, fit.scale, fit.x_padding, fit.y_padding)] ]
    /\ UNCHANGED <<args, fit>>
    /\ UNCHANGED <<runVars, editVars, guiVars>>

NextFit == FitBounds \/ Project
SpecFit == InitFit /\ [][NextFit]_vars

(***************************************************************************)
(* Strings.  An attribute value, an element id: a sequence of one-character*)
(* strings, so that str.strip and str.isdigit act on characters.           *)
(***************************************************************************)
Digits == {"0", "1", "2", "3", "4", "5", "6", "7", "8", "9"}

RECURSIVE lstrip(_)
lstrip(s) == IF s # <<>> /\ Head(s) = " " THEN lstrip(Tail(s)) ELSE s
RECURSIVE rstrip(_)
rstrip(s) == IF s # <<>> /\ s[Len(s)] = " " THEN rstrip(SubSeq(s, 1, Len(s) - 1)) ELSE s
strip(s) == rstrip(lstrip(s))

isdigit_any(s) == \E i \in 1..Len(s) : s[i] \in Digits
isdigit(s) == Len(s) > 0 /\ \A i \in 1..Len(s) : s[i] \in Digits

IndexOf(seq, x) == CHOOSE i \in 1..Len(seq) : seq[i] = x
Contains(seq, x) == \E i \in 1..Len(seq) : seq[i] = x

(***************************************************************************)
(* Elements of the drawing (xml.etree.ElementTree).  An absent id is <<>>, *)
(* an absent class is "".                                                  *)
(***************************************************************************)
G(id, class, children) == [tag |-> "g", id |-> id, class |-> class, children |-> children]
NoId == <<>>

id_open_roads == <<"o","p","e","n","_","r","o","a","d","s">>
id_lots == <<"l","o","t","s">>
id_text == <<"t","e","x","t">>
id_unused == <<"u","n","u","s","e","d">>
id_compass_rose == <<"c","o","m","p","a","s","s","_","r","o","s","e">>
id_road == <<"r","o","a","d">>
id_grass == <<"g","r","a","s","s">>
id_lakes == <<"l","a","k","e","s">>
suffix_lots == <<"-","l","o","t","s">>
suffix_text == <<"-","t","e","x","t">>

plan_colors == <<"#6C889E", "#5D5249", "#B9AE5A", "#123449", "#076587", "#894747">>
default_color == "#DBCDAE"
unused_color == "#d3d3d3"

\* The compass decoration: a fixed fragment (process_lots, lines 90-162).
compass_rose_element ==
    [tag |-> "g", id |-> id_compass_rose, class |-> "",
     children |-> [i \in 1..27 |->
        [tag |-> IF i <= 22 THEN "polygon" ELSE IF i <= 26 THEN "path" ELSE "polyline"]]]

create_svg_root(canvas_width, canvas_height) ==
    [tag |-> "svg", width |-> canvas_width, height |-> canvas_height,
     viewBox |-> <<0, 0, canvas_width, canvas_height>>, children |-> <<>>]

(***************************************************************************)
(* write_polygon and process_geometry (lines 313-335).  A geometry is      *)
(* [kind, polys, centroid]: kind "None" is a null geometry, polys the      *)
(* exterior rings (already simplified), centroid what shapely reports.     *)
(***************************************************************************)
write_polygon(polygon, t, fill) ==
    [tag |-> "path",
     d |-> [i \in 1..Len(polygon) |->
              write_polygon_point(polygon[i][1], polygon[i][2], t.minx, t.maxy,
                                  t.scale, t.x_padding, t.y_padding)],
     fill |-> fill, stroke |-> "black", stroke_width |-> 1]

\* The paths process_geometry appends to its parent group.
process_geometry(geometry, t, fill) ==
    IF geometry.kind = "None" THEN <<>>
    ELSE IF geometry.kind = "Polygon" THEN <<write_polygon(geometry.polys[1], t, fill)>>
    ELSE [i \in 1..Len(geometry.polys) |-> write_polygon(geometry.polys[i], t, fill)]

\* add_layer_to_svg (lines 308-311): the layer group appended to the parent.
RECURSIVE layer_paths(_, _, _)
layer_paths(rows, t, fill) ==
    IF rows = <<>> THEN <<>>
    ELSE process_geometry(Head(rows).geometry, t, fill) \o layer_paths(Tail(rows), t, fill)

add_layer_to_svg(rows, layer_id, layer_class, fill_color, t) ==
    [tag |-> "g", id |-> layer_id, class |-> layer_class,
     children |-> layer_paths(rows, t, fill_color)]

(***************************************************************************)
(* process_lots (lines 89-306).  The loop state is the record              *)
(*   lots_children, text_children  the children of the two containers      *)
(*   community_groups              the dict keys, in insertion order; the  *)
(*                                 k-th key owns the k-th child of each    *)
(*   plan_color_map                the dict as [plan, color] pairs         *)
(*   unused_lots                   the geometries of the skipped records   *)
(*   error                         "" or the exception that ended the loop *)
(***************************************************************************)
plan_in_map(map, plan) == \E i \in 1..Len(map) : map[i].plan = plan
plan_get(map, plan, default) ==
    IF plan_in_map(map, plan)
    THEN map[CHOOSE i \in 1..Len(map) : map[i].plan = plan].color
    ELSE default

plan_color_map_reassign(map, plan) ==
    IF plan # <<>>
    THEN LET color == plan_colors[(Len(map) % Len(plan_colors)) + 1]
             kept == SelectSeq(map, LAMBDA e : e.plan # plan)
         IN Append(kept, [plan |-> plan, color |-> color])
    ELSE map

\* Lines 194-195: a plan name not yet in the map takes the next palette color.
plan_color_map_update(map, plan) ==
    IF ~plan_in_map(map, plan) /\ plan # <<>>
    THEN Append(map, [plan |-> plan,
                      color |-> plan_colors[(Len(map) % Len(plan_colors)) + 1]])
    ELSE map

circle(fill, c, r) == [tag |-> "circle", fill |-> fill, cx |-> c[1], cy |-> c[2], r |-> r]
text_elem(at, class, data_lot_id, content) ==
    [tag |-> "text", transform |-> at, class |-> class,
     data_lot_id |-> data_lot_id, text |-> content]

\* The literal offsets of lines 209-266, as the parser rounds them; x - a is
\* x + (-a) in floating point.
marker_offsets ==
    [const_circle |-> <<Num(5), 0>>,
     const_text |-> <<Dec(26, 10), Dec(12, 10)>>,
     premium_circle |-> <<0, 0 - Num(5)>>,
     star |-> << <<Dec(12, 10), 0 - Dec(67, 10)>>, <<Num(4), 0 - Dec(63, 10)>>,
                 <<Num(2), 0 - Dec(43, 10)>>, <<Dec(25, 10), 0 - Dec(16, 10)>>,
                 <<0, 0 - Dec(29, 10)>>, <<0 - Dec(24, 10), 0 - Dec(16, 10)>>,
                 <<0 - Num(2), 0 - Dec(43, 10)>>, <<0 - Dec(39, 10), 0 - Dec(62, 10)>>,
                 <<0 - Dec(12, 10), 0 - Dec(66, 10)>>, <<0, 0 - Dec(91, 10)>> >>,
     premium_text |-> <<0 - Dec(19, 10), 0 - Dec(38, 10)>>,
     sold_circle |-> <<0 - Num(5), 0>>,
     house |-> << <<0 - Dec(75, 10), 0>>, <<0 - Dec(77, 10), Dec(1, 10)>>,
                  <<0 - Dec(76, 10), Dec(1, 10)>>, <<0 - Dec(75, 10), 0>>,
                  <<0 - Dec(57, 10), Dec(8, 10)>> >>,
     house_v |-> <<Dec(5, 10), Dec(8, 10)>>]

shift(cx, cy, off) == <<FAdd(cx, off[1]), FAdd(cy, off[2])>>
shift_all(cx, cy, offs) == [i \in 1..Len(offs) |-> shift(cx, cy, offs[i])]

\* Lines 209-266: the data group holding the three status marker groups.
status_markers(cx, cy) ==
    G(NoId, "",
      << G(NoId, "constStatus",
           << circle("#444445", shift(cx, cy, marker_offsets.const_circle), "4"),
              text_elem(shift(cx, cy, marker_offsets.const_text), "", NoId, "300") >>),
         G(NoId, "lotPremium",
           << circle("#FFFFFF", shift(cx, cy, marker_offsets.premium_circle), "3.8"),
              [tag |-> "polygon", points |-> shift_all(cx, cy, marker_offsets.star)],
              text_elem(shift(cx, cy, marker_offsets.premium_text), "", NoId, "10k") >>),
         G(NoId, "soldStatus",
           << circle("#FFFFFF", shift(cx, cy, marker_offsets.sold_circle), "4"),
              G(NoId, "",
                << [tag |-> "path",
                    d |-> [points |-> shift_all(cx, cy, marker_offsets.house),
                           v |-> <<FAdd(cy, marker_offsets.house_v[1]),
                                   FAdd(cy, marker_offsets.house_v[2])>>],
                    fill |-> "#000000"] >>) >>) >>)

\* lot_label without the "N/A" fallback of line 287.
lot_label_no_fallback(community_id, lot_job, legal_lot, cx, cy, colorize) ==
    IF colorize
    THEN text_elem(<<cx, FAdd(cy, Num(4))>>, "", community_id \o <<"-">> \o lot_job,
                   legal_lot)
    ELSE text_elem(<<FSub(cx, Num(6)), FAdd(cy, Num(4))>>, "commMapTxt",
                   community_id \o <<"-">> \o lot_job, legal_lot)

\* Lines 269-287: the label, when the anchor is inside the canvas.
lot_label(community_id, lot_job, legal_lot, cx, cy, colorize) ==
    LET data_lot_id == community_id \o <<"-">> \o lot_job
        content == IF legal_lot # <<>> THEN legal_lot ELSE <<"N", "/", "A">>
    IN IF colorize
       THEN text_elem(<<cx, FAdd(cy, Num(4))>>, "", data_lot_id, content)
       ELSE text_elem(<<FSub(cx, Num(6)), FAdd(cy, Num(4))>>, "commMapTxt",
                      data_lot_id, content)

\* anchor_in_canvas with the edges of the canvas left out.
anchor_inside_canvas(cx, cy, canvas_width, canvas_height) ==
    0 < cx /\ cx < canvas_width /\ 0 < cy /\ cy < canvas_height

\* The test of line 269.
anchor_in_canvas(cx, cy, canvas_width, canvas_height) ==
    0 <= cx /\ cx <= canvas_width /\ 0 <= cy /\ cy <= canvas_height

append_child(container, k, child) ==
    [container EXCEPT ![k].children = Append(@, child)]

lots_loop_init ==
    [lots_children |-> <<>>, text_children |-> <<>>, community_groups |-> <<>>,
     plan_color_map |-> <<>>, unused_lots |-> <<>>, error |-> ""]

\* ensure_community without the membership test of line 186.
ensure_community_unchecked(st, community_id) ==
    [st EXCEPT !.community_groups = Append(@, community_id),
               !.lots_children = Append(@, G(community_id \o suffix_lots, "", <<>>)),
               !.text_children = Append(@, G(community_id \o suffix_text, "", <<>>))]

\* Lines 186-191: the first lot of a community creates its two groups.
ensure_community(st, community_id) ==
    IF Contains(st.community_groups, community_id) THEN st
    ELSE [st EXCEPT !.community_groups = Append(@, community_id),
                    !.lots_children = Append(@, G(community_id \o suffix_lots, "", <<>>)),
                    !.text_children = Append(@, G(community_id \o suffix_text, "", <<>>))]

\* Lines 193-198: the fill color of the lot.
assign_color(st, plan, colorize) ==
    IF colorize THEN [st EXCEPT !.plan_color_map = plan_color_map_update(@, plan)]
    ELSE st
fill_color_of(st, plan, colorize) ==
    IF colorize THEN plan_get(st.plan_color_map, plan, default_color)
    ELSE default_color

\* Lines 200-204 and 209-287: the lot group with its paths (and, in the
\* uncolorized variant only, its markers), then the label.  c is the
\* projected centroid.  include_dots is not read anywhere in process_lots.
emit_lot(st, k, community_id, lot_job, legal_lot, fill_color, geometry, t, c, canvas_width, canvas_height, colorize) ==
    [st EXCEPT
       !.lots_children =
           append_child(@, k,
               G(community_id \o <<"-">> \o lot_job, "notavailable",
                 process_geometry(geometry, t, fill_color)
                 \o (IF ~colorize THEN <<status_markers(c[1], c[2])>> ELSE <<>>))),
       !.text_children =
           IF anchor_in_canvas(c[1], c[2], canvas_width, canvas_height)
           THEN append_child(@, k,
                    lot_label(community_id, lot_job, legal_lot, c[1], c[2], colorize))
           ELSE @]

\* Line 206: row.geometry.centroid of a null geometry raises AttributeError.
draw_lot(st, community_id, lot_job, legal_lot, plan, geometry, t, canvas_width, canvas_height, colorize) ==
    IF geometry.kind = "None" THEN [st EXCEPT !.error = "AttributeError"]
    ELSE emit_lot(st, IndexOf(st.community_groups, community_id),
                  community_id, lot_job, legal_lot,
                  fill_color_of(st, plan, colorize), geometry, t,
                  transform_coords(geometry.centroid[1], geometry.centroid[2],
                                   t.minx, t.miny, t.scale, t.maxy,
                                   t.x_padding, t.y_padding),
                  canvas_width, canvas_height, colorize)

\* process_lots_row that keeps the geometry of a valid lot for the unused
\* group as well.
process_lots_row_keep_all(st, row, t, canvas_width, canvas_height, include_dots, colorize) ==
    IF ~isdigit(strip(row.lot_job))
    THEN [st EXCEPT !.unused_lots = Append(@, row.geometry)]
    ELSE [draw_lot(assign_color(ensure_community(st, strip(row.community)),
                                strip(row.plan), colorize),
                   strip(row.community), strip(row.lot_job), strip(row.legal_lot),
                   strip(row.plan), row.geometry, t,
                   canvas_width, canvas_height, colorize)
            EXCEPT !.unused_lots = Append(@, row.geometry)]

\* One iteration of the loop at lines 173-287.
process_lots_row(st, row, t, canvas_width, canvas_height, include_dots, colorize) ==
    IF ~isdigit(strip(row.lot_job))
    THEN [st EXCEPT !.unused_lots = Append(@, row.geometry)]
    ELSE draw_lot(assign_color(ensure_community(st, strip(row.community)),
                               strip(row.plan), colorize),
                  strip(row.community), strip(row.lot_job), strip(row.legal_lot),
                  strip(row.plan), row.geometry, t,
                  canvas_width, canvas_height, colorize)

RECURSIVE lots_loop(_, _, _, _, _, _, _)
lots_loop(st, rows, t, canvas_width, canvas_height, include_dots, colorize) ==
    IF rows = <<>> \/ st.error # "" THEN st
    ELSE lots_loop(process_lots_row(st, Head(rows), t, canvas_width, canvas_height,
                                    include_dots, colorize),
                   Tail(rows), t, canvas_width, canvas_height, include_dots, colorize)

RECURSIVE unused_paths(_, _)
unused_paths(geoms, t) ==
    IF geoms = <<>> THEN <<>>
    ELSE process_geometry(Head(geoms), t, unused_color) \o unused_paths(Tail(geoms), t)

\* lots_containers with the unused group created ahead of the loop.
lots_containers_unused_first(st, svg, t) ==
    IF st.error # "" THEN [error |-> st.error, svg |-> svg]
    ELSE [error |-> "",
          svg |-> [svg EXCEPT !.children = @ \o
              << G(id_lots, "",
                   (IF st.unused_lots # <<>>
                    THEN <<G(id_unused, "notavailable", unused_paths(st.unused_lots, t))>>
                    ELSE <<>>)
                   \o st.lots_children),
                 G(id_text, "", Append(st.text_children, compass_rose_element)) >>]]

\* Lines 163-164 and 289-306: the two containers as they stand after the
\* loop; the compass is the last child of the text container.
lots_containers(st, svg, t) ==
    IF st.error # "" THEN [error |-> st.error, svg |-> svg]
    ELSE [error |-> "",
          svg |-> [svg EXCEPT !.children = @ \o
              << G(id_lots, "",
                   st.lots_children
                   \o (IF st.unused_lots # <<>>
                       THEN <<G(id_unused, "notavailable", unused_paths(st.unused_lots, t))>>
                       ELSE <<>>)),
                 G(id_text, "", Append(st.text_children, compass_rose_element)) >>]]

\* process_lots: the svg with the lots and text containers appended, or the
\* exception raised on the way.
process_lots(rows, svg, t, canvas_width, canvas_height, include_dots, colorize) ==
    lots_containers(lots_loop(lots_loop_init, rows, t, canvas_width, canvas_height,
                              include_dots, colorize),
                    svg, t)

(***************************************************************************)
(* populate_svg (lines 74-87).  A layer collection is [present, rows]:     *)
(* present is FALSE when the file list is empty (combine_geojson_files     *)
(* returns None), rows is the content of the combined frame.               *)
(***************************************************************************)
non_empty(layer) == layer.present /\ layer.rows # <<>>

\* Lines 86-87: the lots are drawn when the lots frame has records.
populate_lots(svg, lots_gdf, t, canvas_width, canvas_height, include_dots, colorize) ==
    IF non_empty(lots_gdf)
    THEN process_lots(lots_gdf.rows, svg, t, canvas_width, canvas_height,
                      include_dots, colorize)
    ELSE [error |-> "", svg |-> svg]

\* populate_svg with the grass layer added before the road layer.
populate_svg_grass_first(svg, lots_gdf, grass_gdf, water_gdf, road_gdf, t, canvas_width, canvas_height, include_dots, colorize) ==
    LET road == IF non_empty(road_gdf)
                THEN <<add_layer_to_svg(road_gdf.rows, id_road, "road", "#DBCDAE", t)>>
                ELSE <<>>
        grass == IF non_empty(grass_gdf)
                 THEN <<add_layer_to_svg(grass_gdf.rows, id_grass, "grass", "#808057", t)>>
                 ELSE <<>>
        lakes == IF non_empty(water_gdf)
                 THEN <<add_layer_to_svg(water_gdf.rows, id_lakes, "lakes", "#73B0CC", t)>>
                 ELSE <<>>
    IN populate_lots([svg EXCEPT !.children =
                          Append(@, G(id_open_roads, "", grass \o road \o lakes))],
                     lots_gdf, t, canvas_width, canvas_height, include_dots, colorize)

\* populate_svg that tests each frame for None only, not for empty.
populate_svg_present(svg, lots_gdf, grass_gdf, water_gdf, road_gdf, t, canvas_width, canvas_height, include_dots, colorize) ==
    LET road == IF road_gdf.present
                THEN <<add_layer_to_svg(road_gdf.rows, id_road, "road", "#DBCDAE", t)>>
                ELSE <<>>
        grass == IF grass_gdf.present
                 THEN <<add_layer_to_svg(grass_gdf.rows, id_grass, "grass", "#808057", t)>>
                 ELSE <<>>
        lakes == IF water_gdf.present
                 THEN <<add_layer_to_svg(water_gdf.rows, id_lakes, "lakes", "#73B0CC", t)>>
                 ELSE <<>>
    IN populate_lots([svg EXCEPT !.children =
                          Append(@, G(id_open_roads, "", road \o grass \o lakes))],
                     lots_gdf, t, canvas_width, canvas_height, include_dots, colorize)

populate_svg(svg, lots_gdf, grass_gdf, water_gdf, road_gdf, t, canvas_width, canvas_height, include_dots, colorize) ==
    LET road == IF non_empty(road_gdf)
                THEN <<add_layer_to_svg(road_gdf.rows, id_road, "road", "#DBCDAE", t)>>
                ELSE <<>>
        grass == IF non_empty(grass_gdf)
                 THEN <<add_layer_to_svg(grass_gdf.rows, id_grass, "grass", "#808057", t)>>
                 ELSE <<>>
        lakes == IF non_empty(water_gdf)
                 THEN <<add_layer_to_svg(water_gdf.rows, id_lakes, "lakes", "#73B0CC", t)>>
                 ELSE <<>>
    IN populate_lots([svg EXCEPT !.children =
                          Append(@, G(id_open_roads, "", road \o grass \o lakes))],
                     lots_gdf, t, canvas_width, canvas_height, include_dots, colorize)

(***************************************************************************)
(* geojson_to_svg (lines 24-56), with the default canvas.                  *)
(***************************************************************************)
default_canvas_width == 1440
default_canvas_height == 840

\* total_bounds of the concatenated frames: over every vertex of every
\* geometry that is not null; None when there is no such vertex.
RECURSIVE ring_points(_)
ring_points(polys) ==
    IF polys = <<>> THEN {}
    ELSE {Head(polys)[i] : i \in 1..Len(Head(polys))} \cup ring_points(Tail(polys))
RECURSIVE rows_points(_)
rows_points(rows) ==
    IF rows = <<>> THEN {}
    ELSE ring_points(Head(rows).geometry.polys) \cup rows_points(Tail(rows))
SetMin(S) == CHOOSE a \in S : \A b \in S : a <= b
SetMax(S) == CHOOSE a \in S : \A b \in S : b <= a

total_bounds(all_gdfs) ==
    LET pts == UNION {rows_points(all_gdfs[i].rows) : i \in 1..Len(all_gdfs)}
        xs == {p[1] : p \in pts}
        ys == {p[2] : p \in pts}
    IN IF pts = {} THEN None
       ELSE [minx |-> SetMin(xs), miny |-> SetMin(ys),
             maxx |-> SetMax(xs), maxy |-> SetMax(ys)]

all_gdfs_of(inp) ==
    SelectSeq(<<inp.lots, inp.grass, inp.water, inp.road>>, non_empty)

\* A frame whose geometries are all null has bounds of NaN, and so has the
\* transform; no vertex is ever projected with it.
nan_transform == [nan |-> TRUE]

fit_bounds(b) ==
    IF b = None THEN nan_transform
    ELSE FitTransform(b.minx, b.miny, b.maxx, b.maxy,
                      Num(default_canvas_width), Num(default_canvas_height))

\* read_and_fit without the emptiness check of lines 30-32.
read_and_fit_no_check ==
    /\ pc = "start"
    /\ fit' = fit_bounds(total_bounds(all_gdfs_of(input)))
    /\ pc' = "fitted"
    /\ UNCHANGED <<input, svg_print, svg_digital, disk, error>>
    /\ UNCHANGED <<fitVars, editVars, guiVars>>

\* Lines 25-44: combine the files, refuse an empty input, fit the bounds.
read_and_fit ==
    /\ pc = "start"
    /\ IF all_gdfs_of(input) = <<>>
       THEN /\ error' = "ValueError"
            /\ pc' = "failed"
            /\ fit' = fit
       ELSE /\ fit' = fit_bounds(total_bounds(all_gdfs_of(input)))
            /\ pc' = "fitted"
            /\ error' = error
    /\ UNCHANGED <<input, svg_print, svg_digital, disk>>
    /\ UNCHANGED <<fitVars, editVars, guiVars>>

\* One variant of the drawing: a fresh root populated with every layer.
populate_variant(inp, t, colorize) ==
    populate_svg(create_svg_root(default_canvas_width, default_canvas_height),
                 inp.lots, inp.grass, inp.water, inp.road, t,
                 Num(default_canvas_width), Num(default_canvas_height), TRUE, colorize)

populated(colorize) == populate_variant(input, fit, colorize)

\* Lines 48-49: the print version, include_dots=True, colorize=True.
populate_print ==
    /\ pc = "fitted"
    /\ \E r \in {populated(TRUE)} :
          IF r.error # ""
          THEN error' = r.error /\ pc' = "failed" /\ svg_print' = svg_print
          ELSE error' = error /\ pc' = "print_built" /\ svg_print' = r.svg
    /\ UNCHANGED <<input, fit, svg_digital, disk>>
    /\ UNCHANGED <<fitVars, editVars, guiVars>>

\* save_svg (lines 345-354): the file is written, or open() raises.
save_print ==
    /\ pc = "print_built"
    /\ \/ disk' = [disk EXCEPT !.print = svg_print] /\ pc' = "print_saved" /\ error' = error
       \/ disk' = disk /\ pc' = "failed" /\ error' = "OSError"
    /\ UNCHANGED <<input, fit, svg_print, svg_digital>>
    /\ UNCHANGED <<fitVars, editVars, guiVars>>

\* Lines 54-55: the digital version, include_dots=True, colorize=False.
populate_digital ==
    /\ pc = "print_saved"
    /\ \E r \in {populated(FALSE)} :
          IF r.error # ""
          THEN error' = r.error /\ pc' = "failed" /\ svg_digital' = svg_digital
          ELSE error' = error /\ pc' = "digital_built" /\ svg_digital' = r.svg
    /\ UNCHANGED <<input, fit, svg_print, disk>>
    /\ UNCHANGED <<fitVars, editVars, guiVars>>

save_digital ==
    /\ pc = "digital_built"
    /\ \/ disk' = [disk EXCEPT !.digital = svg_digital] /\ pc' = "done" /\ error' = error
       \/ disk' = disk /\ pc' = "failed" /\ error' = "OSError"
    /\ UNCHANGED <<input, fit, svg_print, svg_digital>>
    /\ UNCHANGED <<fitVars, editVars, guiVars>>

geojson_to_svg ==
    read_and_fit \/ populate_print \/ save_print \/ populate_digital \/ save_digital

(***************************************************************************)
(* The inputs of the run.                                                  *)
(***************************************************************************)
MaxLots == 2
MaxPlanLots == 8
MaxOtherLots == 2

Pt(x, y) == <<Num(x), Num(y)>>
SquareA == [kind |-> "Polygon",
            polys |-> << <<Pt(0, 0), Pt(4, 0), Pt(4, 4), Pt(0, 4), Pt(0, 0)>> >>,
            centroid |-> Pt(2, 2)]
SquareB == [kind |-> "Polygon",
            polys |-> << <<Pt(4, 0), Pt(8, 0), Pt(8, 4), Pt(4, 4), Pt(4, 0)>> >>,
            centroid |-> Pt(6, 2)]
\* A self-intersecting ring: the area-weighted centroid lies below the ring.
Bowtie == [kind |-> "Polygon",
           polys |-> << <<Pt(0, 0), Pt(4, 0), Pt(0, 4), Pt(3, 4), Pt(0, 0)>> >>,
           centroid |-> <<Dec(7, 3), Dec(0 - 8, 3)>>]
MultiAB == [kind |-> "MultiPolygon",
            polys |-> << <<Pt(0, 0), Pt(4, 0), Pt(4, 4), Pt(0, 4), Pt(0, 0)>>,
                         <<Pt(4, 0), Pt(8, 0), Pt(8, 4), Pt(4, 4), Pt(4, 0)>> >>,
            centroid |-> Pt(4, 2)]
NullGeom == [kind |-> "None", polys |-> <<>>, centroid |-> Pt(0, 0)]
\* A self-intersecting ring as wide as the layers below: the area-weighted
\* centroid lies on the left edge of its bounding box.
BowtieOnEdge == [kind |-> "Polygon",
                 polys |-> << <<Pt(0, 0), Pt(0, 4), Pt(8, 0), Pt(8, 2), Pt(0, 0)>> >>,
                 centroid |-> Pt(0, 2)]

Row(c, j, l, p, g) ==
    [community |-> c, lot_job |-> j, legal_lot |-> l, plan |-> p, geometry |-> g]

cA == <<"A">>
cB == <<"B">>
j12 == <<"1", "2">>
jNA == <<"N", "/", "A">>
jPadded == <<" ", "7", " ">>
jMixed == <<"7", "b">>
lLot12 == <<"L", "o", "t", " ", "1", "2">>
pEstate == <<"E", "s", "t", "a", "t", "e">>
pRanch == <<"R", "a", "n", "c", "h">>

LotRows ==
    { Row(c, j, lLot12, pEstate, g) :
        c \in {cA, cB}, j \in {j12, jNA}, g \in {SquareA, Bowtie} }
    \cup { Row(cA, j12, <<>>, pEstate, SquareA),
           Row(cB, j12, <<>>, pEstate, Bowtie),
           Row(cA, jPadded, lLot12, pEstate, SquareB),
           Row(cA, jMixed, lLot12, pEstate, SquareB),
           Row(cA, j12, lLot12, <<>>, SquareA),
           Row(cB, j12, lLot12, pRanch, MultiAB),
           Row(cA, j12, lLot12, pEstate, NullGeom),
           Row(cB, jNA, <<>>, pEstate, NullGeom) }

SeqsUpTo(S, n) == UNION {[1..k -> S] : k \in 0..n}

Absent == [present |-> FALSE, rows |-> <<>>]
Frame(rows) == [present |-> TRUE, rows |-> rows]
Layer(g) == Frame(<<[geometry |-> g]>>)

\* Every lot list up to MaxLots records, with no background layer ...
LotInputs ==
    { [lots |-> Frame(rows), grass |-> Absent, water |-> Absent, road |-> Absent] :
        rows \in SeqsUpTo(LotRows, MaxLots) \ {<<>>} }
\* ... and every combination of absent, empty and one-record layers.
LayerInputs ==
    { [lots |-> l, grass |-> g, water |-> w, road |-> r] :
        l \in {Absent, Frame(<<>>), Frame(<<Row(cA, j12, lLot12, pEstate, SquareA)>>)},
        g \in {Absent, Frame(<<>>), Layer(SquareB)},
        w \in {Absent, Frame(<<>>), Layer(Bowtie)},
        r \in {Absent, Frame(<<>>), Layer(MultiAB)} }

InitRun(inputs) ==
    /\ input \in inputs
    /\ pc = "start"
    /\ fit = None /\ svg_print = None /\ svg_digital = None
    /\ disk = [print |-> None, digital |-> None]
    /\ error = ""
    /\ args = None /\ proj = None
    /\ IdleEdit /\ IdleGui

Init == InitRun(LotInputs \cup LayerInputs)
Next == geojson_to_svg
Spec == Init /\ [][Next]_vars

(***************************************************************************)
(* SpecPlans: the colorized pass over long lot lists that vary the plan.   *)
(* A list is built from a sequence of kinds: "fresh" is a valid lot with a *)
(* plan name no earlier valid lot has, "repeat" a valid lot with the first *)
(* plan name, "invalid" a skipped record carrying a name no valid lot has  *)
(* had so far, "blank" a valid lot with an empty plan attribute.           *)
(***************************************************************************)
(***************************************************************************)
(* SpecRecords: runs of geojson_to_svg on short lists of records that      *)
(* differ in validity, community, shape and label, one of them with its    *)
(* anchor on the edge of the canvas, and on every combination of layers.   *)
(***************************************************************************)
MaxRecords == 2
RecordRows ==
    { Row(cA, j12, lLot12, pEstate, SquareA),
      Row(cA, j12, <<>>, pEstate, BowtieOnEdge),
      Row(cB, j12, lLot12, pRanch, MultiAB),
      Row(cB, j12, <<>>, pEstate, Bowtie),
      Row(cA, jNA, lLot12, pEstate, SquareB),
      Row(cB, jMixed, lLot12, pEstate, Bowtie),
      Row(cB, jNA, <<>>, pEstate, NullGeom) }
RecordInputs ==
    { [lots |-> Frame(rows), grass |-> Absent, water |-> Absent, road |-> Absent] :
        rows \in SeqsUpTo(RecordRows, MaxRecords) \ {<<>>} }

InitRecords == InitRun(RecordInputs \cup LayerInputs)
SpecRecords == InitRecords /\ [][Next]_vars

PlanKinds == {"fresh", "repeat", "invalid", "blank"}
PlanLetters == <<"a", "b", "c", "d", "e", "f", "g", "h", "i", "j", "k", "l">>
PlanName(n) == <<"P", PlanLetters[n]>>

PlanRow(kind, n) ==
    IF kind = "fresh" THEN Row(cA, j12, lLot12, PlanName(n), SquareA)
    ELSE IF kind = "repeat" THEN Row(cB, j12, lLot12, PlanName(1), SquareA)
    ELSE IF kind = "invalid" THEN Row(cA, jNA, lLot12, PlanName(n), SquareA)
    ELSE Row(cA, j12, lLot12, <<>>, SquareA)

\* n is the number of the next unused plan name.
RECURSIVE PlanRows(_, _)
PlanRows(kinds, n) ==
    IF kinds = <<>> THEN <<>>
    ELSE <<PlanRow(Head(kinds), n)>>
         \o PlanRows(Tail(kinds),
                     IF Head(kinds) = "fresh" \/ (Head(kinds) = "repeat" /\ n = 1)
                     THEN n + 1 ELSE n)

\* Lists of up to MaxPlanLots records of which at most MaxOtherLots are not
\* "fresh".
PlanKindSeqs ==
    { kinds \in SeqsUpTo(PlanKinds, MaxPlanLots) :
        /\ kinds # <<>>
        /\ Cardinality({i \in 1..Len(kinds) : kinds[i] # "fresh"}) <= MaxOtherLots }

PlanInputs ==
    { [lots |-> Frame(PlanRows(kinds, 1)), grass |-> Absent, water |-> Absent,
       road |-> Absent] : kinds \in PlanKindSeqs }

InitPlans == InitRun(PlanInputs)
NextPlans == read_and_fit \/ populate_print
SpecPlans == InitPlans /\ [][NextPlans]_vars

(***************************************************************************)
(* The marker editor (svg_editor.py).  An entry of groups is the 6-tuple   *)
(* of load_groups as a record: dot is the scene item (its rect, its pos,   *)
(* whether it is selected, whether the scene still holds it), circle,      *)
(* text, polygon and path are the document elements the entry refers to    *)
(* (None when the marker group has none), at is the place of the marker    *)
(* group in the document and load the number of the load that made it.     *)
(***************************************************************************)
MaxLoads == 2
MaxDrags == 1
MaxSaves == 2
DragDeltas == {<<Num(16), 0>>, <<0 - Num(3), Num(7)>>}

color_map == [constStatus |-> "blue", lotPremium |-> "red", soldStatus |-> "green"]
standard_radius == 5

has_children(e) == "children" \in DOMAIN e
first_child(e, tag) ==
    IF \E i \in 1..Len(e.children) : e.children[i].tag = tag
    THEN e.children[CHOOSE i \in 1..Len(e.children) :
                        /\ e.children[i].tag = tag
                        /\ \A j \in 1..(i - 1) : e.children[j].tag # tag]
    ELSE None

\* find(".//path"): the first path below e, in document order.
RECURSIVE first_path(_)
RECURSIVE first_path_in(_, _)
first_path_in(children, k) ==
    IF k > Len(children) THEN None
    ELSE IF children[k].tag = "path" THEN children[k]
    ELSE IF has_children(children[k]) /\ first_path(children[k]) # None
         THEN first_path(children[k])
    ELSE first_path_in(children, k + 1)
first_path(e) == first_path_in(e.children, 1)

\* findall(".//g"): the groups below e in document order, each with its place.
RECURSIVE all_groups(_, _)
RECURSIVE all_groups_in(_, _, _)
all_groups_in(children, k, at) ==
    IF k > Len(children) THEN <<>>
    ELSE (IF children[k].tag = "g" THEN <<[at |-> Append(at, k), elem |-> children[k]]>>
          ELSE <<>>)
         \o (IF has_children(children[k]) THEN all_groups(children[k], Append(at, k))
             ELSE <<>>)
         \o all_groups_in(children, k + 1, at)
all_groups(e, at) == all_groups_in(e.children, 1, at)

QRectF(x, y, w, h) == <<x, y, w, h>>
SelectableDot(rect) == [rect |-> rect, pos |-> <<0, 0>>, selected |-> FALSE, in_scene |-> TRUE]

\* sceneBoundingRect().center(): the rect moved by pos, then its centre.
dot_center(dot) ==
    <<FAdd(FAdd(dot.rect[1], dot.pos[1]), FDiv(dot.rect[3], Num(2))),
      FAdd(FAdd(dot.rect[2], dot.pos[2]), FDiv(dot.rect[4], Num(2)))>>

\* Lines 444-497: the entry of one marker group that has a circle.  The
\* house path not yet marked data-processed gets a path item and the mark.
group_entry(g, n) ==
    [dot |-> SelectableDot(QRectF(FSub(first_child(g.elem, "circle").cx, Num(standard_radius)),
                                  FSub(first_child(g.elem, "circle").cy, Num(standard_radius)),
                                  Num(standard_radius * 2), Num(standard_radius * 2))),
     circle |-> first_child(g.elem, "circle"),
     text |-> first_child(g.elem, "text"),
     polygon |-> first_child(g.elem, "polygon"),
     path |-> first_path(g.elem),
     path_item |-> first_path(g.elem) # None,
     class |-> g.elem.class,
     at |-> g.at,
     load |-> n]

\* load_groups (lines 435-497) on the document doc, as load number n.
RECURSIVE group_entries(_, _)
group_entries(gs, n) ==
    IF gs = <<>> THEN <<>>
    ELSE (IF Head(gs).elem.class \in DOMAIN color_map
             /\ first_child(Head(gs).elem, "circle") # None
          THEN <<group_entry(Head(gs), n)>> ELSE <<>>)
         \o group_entries(Tail(gs), n)
load_groups(doc, n) == group_entries(all_groups(doc, <<>>), n)

\* setup_scene_viewbox (line 370): scene.clear() deletes every item.  The
\* entry keeps its wrapper of the dot, whose geometry is gone with the item.
DeletedDot ==
    [rect |-> <<0, 0, 0, 0>>, pos |-> <<0, 0>>, selected |-> FALSE, in_scene |-> FALSE]
scene_clear(gs) == [i \in 1..Len(gs) |-> [gs[i] EXCEPT !.dot = DeletedDot]]

\* Line 491: path.set("data-processed", "true") on the house path of a
\* marker group; the attribute stays in the document and is saved with it.
processed(path) == "data_processed" \in DOMAIN path
set_processed(path) ==
    [x \in DOMAIN path \cup {"data_processed"} |->
        IF x = "data_processed" THEN "true" ELSE path[x]]

\* The element at a place of the document, and the document with the
\* element at a place replaced (the tree is edited in place).
RECURSIVE elem_at(_, _)
elem_at(e, at) == IF at = <<>> THEN e ELSE elem_at(e.children[Head(at)], Tail(at))
RECURSIVE put_at(_, _, _)
put_at(e, at, new) ==
    IF at = <<>> THEN new
    ELSE [e EXCEPT !.children[Head(at)] = put_at(@, Tail(at), new)]

\* e with its first child of the tag replaced.
put_first(e, tag, new) ==
    [e EXCEPT !.children =
        [i \in 1..Len(@) |->
            IF @[i].tag = tag /\ \A j \in 1..(i - 1) : @[j].tag # tag THEN new ELSE @[i]]]

\* e with the path that find(".//path") returns replaced.
RECURSIVE put_first_path(_, _)
RECURSIVE put_first_path_in(_, _, _)
put_first_path_in(children, k, new) ==
    IF k > Len(children) THEN children
    ELSE IF children[k].tag = "path" THEN [children EXCEPT ![k] = new]
    ELSE IF has_children(children[k]) /\ first_path(children[k]) # None
         THEN [children EXCEPT ![k] = put_first_path(@, new)]
    ELSE put_first_path_in(children, k + 1, new)
put_first_path(e, new) == [e EXCEPT !.children = put_first_path_in(@, 1, new)]

\* Lines 441-497 on the document: every marker group with a circle has its
\* house path, if any, marked data-processed.
is_marker_group(e) ==
    e.tag = "g" /\ e.class \in DOMAIN color_map /\ first_child(e, "circle") # None
RECURSIVE mark_groups(_, _)
mark_groups(doc, gs) ==
    IF gs = <<>> THEN doc
    ELSE mark_groups(
             IF is_marker_group(Head(gs).elem) /\ first_path(Head(gs).elem) # None
             THEN put_at(doc, Head(gs).at,
                         put_first_path(Head(gs).elem,
                                        set_processed(first_path(Head(gs).elem))))
             ELSE doc,
             Tail(gs))
load_marks(doc) == mark_groups(doc, all_groups(doc, <<>>))

\* geojson_to_svg with a canvas of the caller's choice (line 24).
convert_on(inp, canvas_width, canvas_height, colorize) ==
    populate_svg(create_svg_root(canvas_width, canvas_height),
                 inp.lots, inp.grass, inp.water, inp.road,
                 FitTransform(total_bounds(all_gdfs_of(inp)).minx,
                              total_bounds(all_gdfs_of(inp)).miny,
                              total_bounds(all_gdfs_of(inp)).maxx,
                              total_bounds(all_gdfs_of(inp)).maxy,
                              Num(canvas_width), Num(canvas_height)),
                 Num(canvas_width), Num(canvas_height), TRUE, colorize).svg
convert(inp, colorize) ==
    convert_on(inp, default_canvas_width, default_canvas_height, colorize)

(***************************************************************************)
(* The files of the session.  Coordinates are kept below 2^FloatBits so    *)
(* that an integer offset such as the marker radius has the weight it has  *)
(* in binary64 on the default canvas: the documents are conversions on a   *)
(* small canvas.  "digital" and "print" are the two variants of one square *)
(* lot; "edge" is the digital variant of a triangular lot whose anchor     *)
(* lies within the marker radius of the left edge; "flat" is "digital"     *)
(* with the marker groups moved up into the lot group (not a document the  *)
(* conversion writes); "broken" does not parse.                            *)
(***************************************************************************)
EditCanvas == 16
EdgeCanvas == 8
TriangleA == [kind |-> "Polygon",
              polys |-> << <<Pt(0, 0), Pt(4, 0), Pt(0, 4), Pt(0, 0)>> >>,
              centroid |-> <<Dec(4, 3), Dec(4, 3)>>]
OneLot == [lots |-> Frame(<<Row(cA, j12, lLot12, pEstate, SquareA)>>),
           grass |-> Absent, water |-> Absent, road |-> Absent]
EdgeLot == [lots |-> Frame(<<Row(cA, j12, lLot12, pEstate, TriangleA)>>),
            grass |-> Absent, water |-> Absent, road |-> Absent]
Unparsable == [unparsable |-> TRUE]

\* The place of the first lot group: lots container, community, lot.
first_lot_at == <<2, 1, 1>>
flatten(doc) ==
    put_at(doc, first_lot_at,
           [elem_at(doc, first_lot_at) EXCEPT !.children = <<@[1]>> \o @[2].children])

EditFiles ==
    [digital |-> convert_on(OneLot, EditCanvas, EditCanvas, FALSE),
     print |-> convert_on(OneLot, EditCanvas, EditCanvas, TRUE),
     edge |-> convert_on(EdgeLot, EdgeCanvas, EdgeCanvas, FALSE),
     flat |-> flatten(convert_on(OneLot, EditCanvas, EditCanvas, FALSE)),
     broken |-> Unparsable]

\* open_new_file and load_svg (lines 232-271).  Both svg_file and
\* output_file take the chosen path before the parse; a file that does not
\* parse leaves the rest as it was and shows the "Error" box.
open_new_file ==
    /\ loads < MaxLoads
    /\ \E f \in DOMAIN svg_files :
          /\ svg_file' = f
          /\ IF svg_files[f] = Unparsable
             THEN /\ report' = "Error"
                  /\ UNCHANGED <<root, groups>>
             ELSE /\ \E doc \in {load_marks(svg_files[f])} :
                        /\ root' = doc
                        /\ groups' = scene_clear(groups) \o load_groups(doc, loads + 1)
                  /\ report' = ""
    /\ loads' = loads + 1
    /\ UNCHANGED <<drags, saves, svg_files>>
    /\ UNCHANGED <<fit, fitVars, runVars, guiVars>>

in_scene == {i \in 1..Len(groups) : groups[i].dot.in_scene}
selected_dots == {i \in in_scene : groups[i].dot.selected}

\* A mouse press on a dot (QGraphicsItem.mousePressEvent/ReleaseEvent): with
\* Ctrl the dot's selection is toggled, without it a dot not yet selected
\* becomes the only selected one.
click_dot ==
    /\ \E i \in in_scene, ctrl \in BOOLEAN :
          groups' = IF ctrl THEN [groups EXCEPT ![i].dot.selected = ~@]
                    ELSE IF groups[i].dot.selected THEN groups
                    ELSE [k \in 1..Len(groups) |->
                             [groups[k] EXCEPT !.dot.selected = (k = i)]]
    /\ report' = ""
    /\ UNCHANGED <<root, loads, drags, saves, svg_file, svg_files>>
    /\ UNCHANGED <<fit, fitVars, runVars, guiVars>>

\* A press on dot i followed by a move by delta: the selected movable items
\* are moved with setPos.  itemChange (lines 63-111) finds path_item,
\* text_item and polygon_item None -- load_groups builds the dot from its
\* rect alone -- and accepts the new position.
drag_dot ==
    /\ drags < MaxDrags
    /\ \E i \in in_scene, delta \in DragDeltas :
          groups' = [k \in 1..Len(groups) |->
                       IF k = i \/ (groups[i].dot.selected /\ groups[k].dot.selected)
                       THEN [groups[k] EXCEPT
                               !.dot.selected = TRUE,
                               !.dot.pos = <<FAdd(@[1], delta[1]), FAdd(@[2], delta[2])>>]
                       ELSE [groups[k] EXCEPT !.dot.selected =
                               IF groups[i].dot.selected THEN @ ELSE FALSE]]
    /\ drags' = drags + 1
    /\ report' = ""
    /\ UNCHANGED <<root, loads, saves, svg_file, svg_files>>
    /\ UNCHANGED <<fit, fitVars, runVars, guiVars>>

\* swap_selected_dots (lines 329-366).  Line 332 unpacks every entry of
\* self.groups into two names; an entry has six members, so with any entry
\* loaded the comprehension raises ValueError and the handler ends there.
\* With no entry the selection is empty and the warning of line 335 is
\* shown.  Lines 337-366 are never reached.
swap_selected_dots ==
    /\ report' = IF groups # <<>> THEN "ValueError" ELSE "Swap Error"
    /\ UNCHANGED <<root, groups, loads, drags, saves, svg_file, svg_files>>
    /\ UNCHANGED <<fit, fitVars, runVars, guiVars>>

(***************************************************************************)
(* save_changes (lines 499-569).  str() and float() of a Python float      *)
(* round-trip, so an attribute is kept as the number it denotes.           *)
(***************************************************************************)
translate(p, dx, dy) == <<FAdd(p[1], dx), FAdd(p[2], dy)>>
translate_all(ps, dx, dy) == [i \in 1..Len(ps) |-> translate(ps[i], dx, dy)]

\* Lines 536-556: every segment of the parsed path comes back as an absolute
\* command moved by (dx, dy).
save_path(path, dx, dy) ==
    [path EXCEPT !.d = [points |-> translate_all(@.points, dx, dy),
                        v |-> [i \in 1..Len(@.v) |-> FAdd(@.v[i], dy)],
                        form |-> "absolute"]]
\* Lines 517-525 and 527-533.
save_text(text, dx, dy) == [text EXCEPT !.transform = translate(@, dx, dy)]
save_polygon(polygon, dx, dy) == [polygon EXCEPT !.points = translate_all(@, dx, dy)]

save_label(g, dx, dy) ==
    IF first_child(g, "text") # None
    THEN put_first(g, "text", save_text(first_child(g, "text"), dx, dy))
    ELSE g
save_star(g, dx, dy) ==
    IF first_child(g, "polygon") # None
    THEN put_first(g, "polygon", save_polygon(first_child(g, "polygon"), dx, dy))
    ELSE g
save_icon(g, dx, dy) ==
    IF first_path(g) # None
    THEN put_first_path(g, save_path(first_path(g), dx, dy))
    ELSE g

\* Lines 505-556 for one entry: c is the centre of the dot, g the marker
\* group; the circle takes the centre, the rest moves by (dx, dy).
save_moved(g, c, dx, dy) ==
    put_first(save_icon(save_star(save_label(g, dx, dy), dx, dy), dx, dy),
              "circle", [first_child(g, "circle") EXCEPT !.cx = c[1], !.cy = c[2]])
save_group(g, c) ==
    save_moved(g, c, FSub(c[1], first_child(g, "circle").cx),
                     FSub(c[2], first_child(g, "circle").cy))

\* The entry refers to the elements of the document, so it sees the edit.
refresh(entry, g) ==
    [entry EXCEPT !.circle = first_child(g, "circle"),
                  !.text = first_child(g, "text"),
                  !.polygon = first_child(g, "polygon"),
                  !.path = first_path(g)]

\* The loop of line 504 from entry k on.  A dot that scene.clear() deleted
\* raises RuntimeError at line 505 and the handler ends.
RECURSIVE save_loop(_, _, _)
save_loop(doc, gs, k) ==
    IF k > Len(gs) THEN [root |-> doc, groups |-> gs, error |-> ""]
    ELSE IF ~gs[k].dot.in_scene THEN [root |-> doc, groups |-> gs, error |-> "RuntimeError"]
    ELSE save_loop(put_at(doc, gs[k].at,
                          save_group(elem_at(doc, gs[k].at), dot_center(gs[k].dot))),
                   [gs EXCEPT ![k] =
                       refresh(@, save_group(elem_at(doc, gs[k].at), dot_center(gs[k].dot)))],
                   k + 1)

\* Line 561 raises AttributeError when no document was ever parsed; open()
\* at line 566 can raise OSError.  Nothing in the handler catches either.
save_changes ==
    /\ saves < MaxSaves
    /\ saves' = saves + 1
    /\ \E r \in {save_loop(root, groups, 1)} :
          /\ root' = r.root
          /\ groups' = r.groups
          /\ IF r.error # "" THEN report' = r.error /\ svg_files' = svg_files
             ELSE IF root = None THEN report' = "AttributeError" /\ svg_files' = svg_files
             ELSE \/ report' = "Success" /\ svg_files' = [svg_files EXCEPT ![svg_file] = r.root]
                  \/ report' = "OSError" /\ svg_files' = svg_files
    /\ UNCHANGED <<loads, drags, svg_file>>
    /\ UNCHANGED <<fit, fitVars, runVars, guiVars>>

(***************************************************************************)
(* auto_arrange_dots (lines 273-327).  A lot path is the ring write_polygon *)
(* wrote; Polygon(path_points) has the ring's points.  Coordinates are      *)
(* counts of units, so the point-in-polygon test is exact.                 *)
(***************************************************************************)
dot_classes == <<"constStatus", "lotPremium", "soldStatus">>

Cross(a, b, p) == (b[1] - a[1]) * (p[2] - a[2]) - (b[2] - a[2]) * (p[1] - a[1])
on_segment(a, b, p) ==
    /\ Cross(a, b, p) = 0
    /\ (a[1] <= p[1] /\ p[1] <= b[1]) \/ (b[1] <= p[1] /\ p[1] <= a[1])
    /\ (a[2] <= p[2] /\ p[2] <= b[2]) \/ (b[2] <= p[2] /\ p[2] <= a[2])
\* The edge a-b crosses the ray from p towards greater x.
crosses_ray(a, b, p) ==
    /\ (a[2] > p[2]) # (b[2] > p[2])
    /\ IF b[2] > a[2] THEN Cross(a, b, p) > 0 ELSE Cross(a, b, p) < 0
\* lot_polygon.contains(Point(cx, cy)): strictly inside the ring.
contains(ring, p) ==
    /\ \A i \in 1..(Len(ring) - 1) : ~on_segment(ring[i], ring[i + 1], p)
    /\ Cardinality({i \in 1..(Len(ring) - 1) : crosses_ray(ring[i], ring[i + 1], p)}) % 2 = 1

\* Lines 296-305.
inset_of(min_x, max_x) ==
    IF FMul(FSub(max_x, min_x), Dec(8, 100)) > Num(10)
    THEN FMul(FSub(max_x, min_x), Dec(8, 100)) ELSE Num(10)
corners_inset(min_x, min_y, max_x, max_y, inset) ==
    << <<FAdd(min_x, inset), FAdd(min_y, inset)>>,
       <<FSub(max_x, inset), FAdd(min_y, inset)>>,
       <<FAdd(min_x, inset), FSub(max_y, inset)>>,
       <<FSub(max_x, inset), FSub(max_y, inset)>> >>
corner_positions(ring) ==
    corners_inset(SetMin({ring[i][1] : i \in 1..Len(ring)}),
                  SetMin({ring[i][2] : i \in 1..Len(ring)}),
                  SetMax({ring[i][1] : i \in 1..Len(ring)}),
                  SetMax({ring[i][2] : i \in 1..Len(ring)}),
                  inset_of(SetMin({ring[i][1] : i \in 1..Len(ring)}),
                           SetMax({ring[i][1] : i \in 1..Len(ring)})))
\* Lines 308-310.
valid_positions(ring) ==
    SelectSeq(corner_positions(ring), LAMBDA p : contains(ring, p))

\* Line 316, find("svg:g[@class='...']/svg:circle"): the circle of the first
\* CHILD group of that class; 0 when group_elem has no such child.
class_child(e, class) ==
    IF \E k \in 1..Len(e.children) : /\ e.children[k].tag = "g"
                                     /\ e.children[k].class = class
                                     /\ first_child(e.children[k], "circle") # None
    THEN CHOOSE k \in 1..Len(e.children) :
            /\ e.children[k].tag = "g" /\ e.children[k].class = class
            /\ first_child(e.children[k], "circle") # None
            /\ \A j \in 1..(k - 1) :
                  ~(/\ e.children[j].tag = "g" /\ e.children[j].class = class
                    /\ first_child(e.children[j], "circle") # None)
    ELSE 0
has_class_child(e) ==
    \E i \in 1..Len(dot_classes) : class_child(e, dot_classes[i]) # 0

\* Lines 318-320.
arranged(circle_elem, p) == [circle_elem EXCEPT !.cx = p[1], !.cy = p[2], !.r = "5"]

set_circle(doc, place, p) ==
    put_at(doc, place,
           put_first(elem_at(doc, place), "circle",
                     arranged(first_child(elem_at(doc, place), "circle"), p)))

\* Lines 314-324 for one group, from candidate i on; k is the child group
\* line 316 finds for the class of candidate i.  Line 322 unpacks an entry
\* of self.groups into two names: with any entry loaded, the first circle
\* that is set is followed by ValueError and the handler ends.
RECURSIVE arrange_positions(_, _, _, _, _)
RECURSIVE arrange_position(_, _, _, _, _, _)
arrange_position(doc, at, valid, i, has_entries, k) ==
    IF k = 0 THEN arrange_positions(doc, at, valid, i + 1, has_entries)
    ELSE IF has_entries
    THEN [root |-> set_circle(doc, Append(at, k), valid[i]), error |-> "ValueError"]
    ELSE arrange_positions(set_circle(doc, Append(at, k), valid[i]),
                           at, valid, i + 1, has_entries)
arrange_positions(doc, at, valid, i, has_entries) ==
    IF i > Len(valid) \/ i > Len(dot_classes) THEN [root |-> doc, error |-> ""]
    ELSE arrange_position(doc, at, valid, i, has_entries,
                          class_child(elem_at(doc, at), dot_classes[i]))

\* The loop of line 277 over the groups that have a path of their own.  A
\* group none of whose child groups carries a marker class is left as it
\* is, whatever its candidates are.
RECURSIVE arrange_groups(_, _, _)
RECURSIVE arrange_next(_, _, _)
arrange_next(r, places, has_entries) ==
    IF r.error # "" THEN r ELSE arrange_groups(r.root, places, has_entries)
arrange_groups(doc, places, has_entries) ==
    IF places = <<>> THEN [root |-> doc, error |-> ""]
    ELSE IF \/ first_child(elem_at(doc, Head(places)), "path") = None
            \/ ~has_class_child(elem_at(doc, Head(places)))
    THEN arrange_groups(doc, Tail(places), has_entries)
    ELSE arrange_next(
             arrange_positions(doc, Head(places),
                 valid_positions(first_child(elem_at(doc, Head(places)), "path").d),
                 1, has_entries),
             Tail(places), has_entries)

group_places(doc) == [i \in 1..Len(all_groups(doc, <<>>)) |-> all_groups(doc, <<>>)[i].at]

\* The entries of the loaded document refer to its elements.
refresh_all(gs, doc) ==
    [i \in 1..Len(gs) |->
        IF gs[i].dot.in_scene THEN refresh(gs[i], elem_at(doc, gs[i].at)) ELSE gs[i]]

\* Line 277 raises AttributeError when no document was ever parsed.
auto_arrange_dots ==
    /\ IF root = None
       THEN report' = "AttributeError" /\ UNCHANGED <<root, groups>>
       ELSE \E r \in {arrange_groups(root, group_places(root), groups # <<>>)} :
               /\ root' = r.root
               /\ groups' = refresh_all(groups, r.root)
               /\ report' = IF r.error # "" THEN r.error ELSE "Auto Arrange"
    /\ UNCHANGED <<loads, drags, saves, svg_file, svg_files>>
    /\ UNCHANGED <<fit, fitVars, runVars, guiVars>>

InitEdit ==
    /\ NewEditor
    /\ svg_files = EditFiles
    /\ input = None /\ pc = "idle" /\ svg_print = None /\ svg_digital = None
    /\ disk = None /\ error = ""
    /\ args = None /\ fit = None /\ proj = None
    /\ IdleGui
NextEdit == open_new_file \/ click_dot \/ drag_dot \/ swap_selected_dots
SpecEdit == InitEdit /\ [][NextEdit]_vars

\* A session of the toolbar: open, move one marker, swap, arrange, save.
NextSave ==
    \/ open_new_file \/ drag_dot \/ swap_selected_dots
    \/ save_changes \/ auto_arrange_dots
SpecSave == InitEdit /\ [][NextSave]_vars

(***************************************************************************)
(* The main window (gui_main.py): four file lists, the output file and the *)
(* Run button.  A path is a sequence of characters.  The files on disk:    *)
(* path_lots holds one valid lot, path_empty a collection of no features,  *)
(* path_gone was deleted after it was chosen, path_notes is not GeoJSON.   *)
(***************************************************************************)
MaxAdds == 2

file_types == <<"Lots", "Grass", "Water", "Road">>
FileTypes == {file_types[i] : i \in 1..Len(file_types)}

ext_geojson == <<".", "g", "e", "o", "j", "s", "o", "n">>
path_lots == <<"l">> \o ext_geojson
path_empty == <<"e">> \o ext_geojson
path_gone == <<"x">> \o ext_geojson
path_upper == <<"U", ".", "G", "E", "O", "J", "S", "O", "N">>
path_notes == <<"n", ".", "t", "x", "t">>
path_out == <<"m", ".", "s", "v", "g">>
\* self.output_file when it is None: bool() of it is False, as of "".
no_file == <<>>

\* os.path.exists, and what gpd.read_file makes of an existing file.
exists(path) == path # path_gone
read_file(path) ==
    IF path = path_lots \/ path = path_upper
    THEN <<Row(cA, j12, lLot12, pEstate, SquareA)>>
    ELSE <<>>

\* str.lower and str.endswith (line 45).
lower_char(c) ==
    CASE c = "U" -> "u" [] c = "G" -> "g" [] c = "E" -> "e" [] c = "O" -> "o"
      [] c = "J" -> "j" [] c = "S" -> "s" [] c = "N" -> "n" [] OTHER -> c
lower(s) == [i \in 1..Len(s) |-> lower_char(s[i])]
endswith(s, suffix) ==
    /\ Len(s) >= Len(suffix)
    /\ SubSeq(s, Len(s) - Len(suffix) + 1, Len(s)) = suffix

\* MainWindow.__init__ and create_main_context (lines 52-60, 127-128).
NewMainWindow ==
    /\ file_paths = [t \in FileTypes |-> <<>>]
    /\ file_list_widgets = [t \in FileTypes |-> <<>>]
    /\ output_file = no_file
    /\ run_button = FALSE
    /\ message = ""
    /\ adds = 0

\* check_run_conditions that looks at the output file alone.
check_run_conditions_output_only(paths, out) == out # no_file

\* check_run_conditions (lines 221-225) on the lists and output file given.
check_run_conditions(paths, out) == paths["Lots"] # <<>> /\ out # no_file

\* list(set(paths)): the distinct paths, in whatever order the set yields.
Range(seq) == {seq[i] : i \in 1..Len(seq)}
unique_files(paths) ==
    {l \in [1..Cardinality(Range(paths)) -> Range(paths)] : Range(l) = Range(paths)}

\* What the file dialog can return (line 177), and what can be dropped.
DialogChoices == {<<path_lots>>, <<path_empty>>, <<path_gone>>, <<path_lots, path_empty>>}
DropChoices == {<<path_lots>>, <<path_empty>>, <<path_gone>>, <<path_upper>>, <<path_notes>>}

\* add_files and update_file_list (lines 174-182, 195-205).
add_files ==
    /\ adds < MaxAdds
    /\ \E file_type \in FileTypes, chosen \in DialogChoices :
          \E unique \in unique_files(file_paths[file_type] \o chosen) :
             /\ file_paths' = [file_paths EXCEPT ![file_type] = unique]
             /\ file_list_widgets' = [file_list_widgets EXCEPT ![file_type] = unique]
             /\ run_button' = check_run_conditions(file_paths', output_file)
    /\ adds' = adds + 1
    /\ UNCHANGED <<output_file, message>>
    /\ UNCHANGED <<fit, fitVars, runVars, editVars>>

\* dropEvent (lines 40-48) of the list widget of one file type.
dropped(urls) == SelectSeq(urls, LAMBDA u : endswith(lower(u), ext_geojson))
dropEvent ==
    /\ adds < MaxAdds
    /\ \E file_type \in FileTypes, urls \in DropChoices :
          /\ file_paths' = [file_paths EXCEPT ![file_type] = @ \o dropped(urls)]
          /\ file_list_widgets' = [file_list_widgets EXCEPT ![file_type] = @ \o dropped(urls)]
          /\ run_button' = check_run_conditions(file_paths', output_file)
    /\ adds' = adds + 1
    /\ UNCHANGED <<output_file, message>>
    /\ UNCHANGED <<fit, fitVars, runVars, editVars>>

\* list.remove(x): the list without the first occurrence of x.
remove_first(l, x) ==
    SelectSeq([i \in 1..Len(l) |-> [at |-> i, v |-> l[i]]],
              LAMBDA e : e.at # IndexOf(l, x))
without(l, k) == [i \in 1..(Len(l) - 1) |-> IF i < k THEN l[i] ELSE l[i + 1]]
paths_without(l, x) == [i \in 1..(Len(l) - 1) |-> remove_first(l, x)[i].v]

\* remove_files (lines 184-193).  A list widget selects one item at a time;
\* k is the row of the selected item.
remove_files ==
    /\ \E file_type \in FileTypes :
          \E k \in 1..Len(file_list_widgets[file_type]) :
             /\ file_paths' = [file_paths EXCEPT ![file_type] =
                                  paths_without(@, file_list_widgets[file_type][k])]
             /\ file_list_widgets' = [file_list_widgets EXCEPT ![file_type] = without(@, k)]
             /\ run_button' = check_run_conditions(file_paths', output_file)
    /\ UNCHANGED <<output_file, message, adds>>
    /\ UNCHANGED <<fit, fitVars, runVars, editVars>>

\* select_output_file (lines 207-219): a path, or none when cancelled.
select_output_file ==
    /\ \E file_path \in {path_out, no_file} :
          /\ output_file' = file_path
          /\ run_button' = check_run_conditions(file_paths, file_path)
    /\ UNCHANGED <<file_paths, file_list_widgets, message, adds>>
    /\ UNCHANGED <<fit, fitVars, runVars, editVars>>

\* combine_geojson_files (lines 337-343): None for an empty list, else the
\* records of the files one after the other.
RECURSIVE concat_files(_)
concat_files(files) ==
    IF files = <<>> THEN <<>> ELSE read_file(Head(files)) \o concat_files(Tail(files))
combine_geojson_files(files) ==
    IF files = <<>> THEN Absent ELSE Frame(concat_files(files))
combined(paths) ==
    [lots |-> combine_geojson_files(paths["Lots"]),
     grass |-> combine_geojson_files(paths["Grass"]),
     water |-> combine_geojson_files(paths["Water"]),
     road |-> combine_geojson_files(paths["Road"])]

\* geojson_to_svg from line 30 on: the exception of the empty-input check,
\* or the two drawings as populate_svg leaves them.
drawings(inp) ==
    IF all_gdfs_of(inp) = <<>> THEN [error |-> "ValueError"]
    ELSE [error |-> "",
          print |-> populate_variant(inp, fit_bounds(total_bounds(all_gdfs_of(inp))), TRUE),
          digital |-> populate_variant(inp, fit_bounds(total_bounds(all_gdfs_of(inp))), FALSE)]

\* The layer collections a Run can hand to geojson_to_svg (its Lots list is
\* not empty, and every add or drop brings at most one file with a record),
\* and their drawings, each computed once.
lot_file_rows(k) == [i \in 1..k |-> Row(cA, j12, lLot12, pEstate, SquareA)]
SessionFrames == {Absent} \cup {Frame(lot_file_rows(k)) : k \in 0..MaxAdds}
SessionInputs ==
    {inp \in [lots : SessionFrames \ {Absent}, grass : SessionFrames,
              water : SessionFrames, road : SessionFrames] :
        Len(inp.lots.rows) + Len(inp.grass.rows)
            + Len(inp.water.rows) + Len(inp.road.rows) <= MaxAdds}
SessionDrawings == {<<inp, drawings(inp)>> : inp \in SessionInputs}
drawings_of(inp) == (CHOOSE p \in SessionDrawings : p[1] = inp)[2]

\* Lines 47-56 in their order: the exception that ended the run, "" if
\* none, and the files written.  written_print and written_digital say
\* whether open() succeeds in the two calls of save_svg.
wrote(err, print, digital) == [error |-> err, print |-> print, digital |-> digital]
run_pipeline(b, written_print, written_digital) ==
    IF b.error # "" THEN wrote(b.error, None, None)
    ELSE IF b.print.error # "" THEN wrote(b.print.error, None, None)
    ELSE IF ~written_print THEN wrote("OSError", None, None)
    ELSE IF b.digital.error # "" THEN wrote(b.digital.error, b.print.svg, None)
    ELSE IF ~written_digital THEN wrote("OSError", b.print.svg, None)
    ELSE wrote("", b.print.svg, b.digital.svg)

all_paths(paths) == paths["Lots"] \o paths["Grass"] \o paths["Water"] \o paths["Road"]

\* Lines 236-245: geojson_to_svg is called and its outcome shown.  pc is
\* "done" or "failed" after a call.
call_pipeline ==
    /\ input' = combined(file_paths)
    /\ \E b \in {drawings_of(combined(file_paths))}, written_print, written_digital \in BOOLEAN :
          \E r \in {run_pipeline(b, written_print, written_digital)} :
             /\ error' = r.error
             /\ pc' = IF r.error = "" THEN "done" ELSE "failed"
             /\ message' = IF r.error = "" THEN "Success" ELSE "Error"
             /\ disk' = [print |-> IF r.print # None THEN r.print ELSE disk.print,
                         digital |-> IF r.digital # None THEN r.digital ELSE disk.digital]

\* run_conversion without the check of lines 231-234: reading a file that
\* does not exist raises in combine_geojson_files, before anything is drawn.
run_conversion_unchecked ==
    /\ run_button
    /\ IF \E i \in 1..Len(all_paths(file_paths)) : ~exists(all_paths(file_paths)[i])
       THEN /\ message' = "Error"
            /\ pc' = "failed"
            /\ error' = "DriverError"
            /\ UNCHANGED <<input, disk>>
       ELSE call_pipeline
    /\ UNCHANGED <<file_paths, file_list_widgets, output_file, run_button, adds>>
    /\ UNCHANGED <<fit, svg_print, svg_digital, fitVars, editVars>>

\* run_conversion (lines 227-245), the slot of the Run button.  pc is
\* "idle" when the handler ended without calling geojson_to_svg.
run_conversion ==
    /\ run_button
    /\ IF \E i \in 1..Len(all_paths(file_paths)) : ~exists(all_paths(file_paths)[i])
       THEN /\ message' = "Error"
            /\ pc' = "idle"
            /\ error' = ""
            /\ UNCHANGED <<input, disk>>
       ELSE call_pipeline
    /\ UNCHANGED <<file_paths, file_list_widgets, output_file, run_button, adds>>
    /\ UNCHANGED <<fit, svg_print, svg_digital, fitVars, editVars>>

InitGui ==
    /\ NewMainWindow
    /\ input = None /\ pc = "idle" /\ svg_print = None /\ svg_digital = None
    /\ disk = [print |-> None, digital |-> None] /\ error = ""
    /\ args = None /\ fit = None /\ proj = None
    /\ IdleEdit
NextGui ==
    \/ add_files \/ dropEvent \/ remove_files \/ select_output_file
    \/ run_conversion
SpecGui == InitGui /\ [][NextGui]_vars

(***************************************************************************)
(* Reading a generated document back, for the properties below.            *)
(***************************************************************************)
InCanvas(p, w, h) == 0 <= p[1] /\ p[1] <= w /\ 0 <= p[2] /\ p[2] <= h
AllDigits(s) == s # <<>> /\ \A i \in 1..Len(s) : s[i] \in Digits
ValidRow(row) == AllDigits(strip(row.lot_job))
LotsRows == IF input.lots.present THEN input.lots.rows ELSE <<>>
ValidRows == {i \in 1..Len(LotsRows) : ValidRow(LotsRows[i])}
InvalidRows == {i \in 1..Len(LotsRows) : ~ValidRow(LotsRows[i])}
LotId(row) == strip(row.community) \o <<"-">> \o strip(row.lot_job)

HasGroup(parent, id) ==
    \E i \in 1..Len(parent.children) :
        parent.children[i].tag = "g" /\ parent.children[i].id = id
GroupWithId(parent, id) ==
    parent.children[CHOOSE i \in 1..Len(parent.children) :
                        parent.children[i].tag = "g" /\ parent.children[i].id = id]
ChildrenTagged(e, tag) == SelectSeq(e.children, LAMBDA c : c.tag = tag)

\* The position of lot i among the valid lots of its community.
Rank(rows, i) ==
    Cardinality({j \in 1..i : ValidRow(rows[j])
                              /\ strip(rows[j].community) = strip(rows[i].community)})
CommunityLots(doc, row) ==
    GroupWithId(GroupWithId(doc, id_lots), strip(row.community) \o suffix_lots)
CommunityText(doc, row) ==
    GroupWithId(GroupWithId(doc, id_text), strip(row.community) \o suffix_text)
LotGroupOf(doc, rows, i) == CommunityLots(doc, rows[i]).children[Rank(rows, i)]

\* The classes of the marker groups found inside a lot group.
MarkerClasses(lot_group) ==
    UNION { {g.children[k].class : k \in 1..Len(g.children)} :
            g \in {lot_group.children[i] : i \in
                     {n \in 1..Len(lot_group.children) : lot_group.children[n].tag = "g"}} }
AllMarkerClasses == {"constStatus", "lotPremium", "soldStatus"}

\* The projected rings of a geometry, as the path emitter must write them.
ExpectedRings(geometry) ==
    [k \in 1..Len(geometry.polys) |->
        [i \in 1..Len(geometry.polys[k]) |->
            write_polygon_point(geometry.polys[k][i][1], geometry.polys[k][i][2],
                                fit.minx, fit.maxy, fit.scale, fit.x_padding,
                                fit.y_padding)]]
PathData(paths) == [k \in 1..Len(paths) |-> paths[k].d]
Anchor(row) ==
    transform_coords(row.geometry.centroid[1], row.geometry.centroid[2],
                     fit.minx, fit.miny, fit.scale, fit.maxy, fit.x_padding, fit.y_padding)
AnchorInside(row) ==
    InCanvas(Anchor(row), Num(default_canvas_width), Num(default_canvas_height))

BuiltDocs ==
    (IF svg_print # None THEN {svg_print} ELSE {})
    \cup (IF svg_digital # None THEN {svg_digital} ELSE {})

(***************************************************************************)
(* C1 -- in the colorized pass two valid lots with the same non-empty plan *)
(* name have the same fill, and the N-th distinct plan name the pass meets *)
(* (the non-empty plan names of valid lots, in input order) has the fill   *)
(* palette[(N-1) mod 6].                                                   *)
(***************************************************************************)
PlanOf(i) == strip(LotsRows[i].plan)
PlannedRows == {i \in ValidRows : PlanOf(i) # <<>>}
FirstWith(plan) == CHOOSE i \in PlannedRows :
                       PlanOf(i) = plan /\ \A j \in PlannedRows : PlanOf(j) = plan => i <= j
\* N: how many distinct plan names have been met when this one first is.
PlanNumber(plan) ==
    Cardinality({PlanOf(j) : j \in {k \in PlannedRows : k <= FirstWith(plan)}})
PaletteColor(n) == plan_colors[((n - 1) % Len(plan_colors)) + 1]
FillsOf(lot_group) ==
    {ChildrenTagged(lot_group, "path")[k].fill :
        k \in 1..Len(ChildrenTagged(lot_group, "path"))}

C1_PlanColors ==
    svg_print # None =>
        /\ \A i \in PlannedRows :
             FillsOf(LotGroupOf(svg_print, LotsRows, i))
                 = {PaletteColor(PlanNumber(PlanOf(i)))}
        /\ \A i, j \in PlannedRows :
             PlanOf(i) = PlanOf(j) =>
                 FillsOf(LotGroupOf(svg_print, LotsRows, i))
                     = FillsOf(LotGroupOf(svg_print, LotsRows, j))

\* Seven distinct plans, so that the palette wraps, and a repeated plan.
C1_Witness ==
    /\ svg_print # None
    /\ \E i \in PlannedRows :
          /\ PlanNumber(PlanOf(i)) = Len(plan_colors) + 1
          /\ FillsOf(LotGroupOf(svg_print, LotsRows, i)) = {plan_colors[1]}
    /\ \E i, j \in PlannedRows : i < j /\ PlanOf(i) = PlanOf(j)

(***************************************************************************)
(* C2 -- a record whose lot-job attribute is not a string of digits yields *)
(* no lot sub-group, no label and no marker, does not create the groups of *)
(* its community, and its geometry is drawn only as paths of the group     *)
(* "unused", filled #d3d3d3.                                               *)
(***************************************************************************)
RECURSIVE InvalidRings(_)
InvalidRings(rows) ==
    IF rows = <<>> THEN <<>>
    ELSE (IF ValidRow(Head(rows)) THEN <<>> ELSE ExpectedRings(Head(rows).geometry))
         \o InvalidRings(Tail(rows))
CommunityGroups(container) ==
    SelectSeq(container.children, LAMBDA g : g.tag = "g" /\ g.id # id_unused
                                             /\ g.id # id_compass_rose)
RECURSIVE CountChildren(_)
CountChildren(gs) == IF gs = <<>> THEN 0 ELSE Len(Head(gs).children) + CountChildren(Tail(gs))

C2_Doc(doc) ==
    LET lots == GroupWithId(doc, id_lots)
        text == GroupWithId(doc, id_text)
    IN /\ HasGroup(lots, id_unused)
       /\ \A k \in 1..Len(GroupWithId(lots, id_unused).children) :
             /\ GroupWithId(lots, id_unused).children[k].tag = "path"
             /\ GroupWithId(lots, id_unused).children[k].fill = "#d3d3d3"
       /\ PathData(GroupWithId(lots, id_unused).children) = InvalidRings(LotsRows)
       \* every lot sub-group and every label belongs to a valid record
       /\ CountChildren(CommunityGroups(lots)) = Cardinality(ValidRows)
       /\ CountChildren(CommunityGroups(text)) <= Cardinality(ValidRows)
       /\ \A i \in InvalidRows :
             /\ \A k \in 1..Len(CommunityGroups(lots)) :
                  \A n \in 1..Len(CommunityGroups(lots)[k].children) :
                      CommunityGroups(lots)[k].children[n].id # LotId(LotsRows[i])
             /\ \A k \in 1..Len(CommunityGroups(text)) :
                  \A n \in 1..Len(CommunityGroups(text)[k].children) :
                      CommunityGroups(text)[k].children[n].data_lot_id # LotId(LotsRows[i])
             /\ (\A j \in ValidRows :
                     strip(LotsRows[j].community) # strip(LotsRows[i].community))
                => /\ ~HasGroup(lots, strip(LotsRows[i].community) \o suffix_lots)
                   /\ ~HasGroup(text, strip(LotsRows[i].community) \o suffix_text)

C2_InvalidOnlyUnused ==
    \A doc \in BuiltDocs : InvalidRows # {} => C2_Doc(doc)

\* Both documents built from a valid lot and a skipped record of one
\* community whose lot job has a digit in it.
C2_Witness ==
    /\ svg_print # None /\ svg_digital # None
    /\ ValidRows # {}
    /\ \E i \in InvalidRows :
          /\ \E k \in 1..Len(strip(LotsRows[i].lot_job)) :
                 strip(LotsRows[i].lot_job)[k] \in Digits
          /\ \E j \in ValidRows :
                 strip(LotsRows[j].community) = strip(LotsRows[i].community)

(***************************************************************************)
(* C3 -- a valid lot whose projected centroid is outside the canvas has no *)
(* label, but its path is in both documents and its three status markers   *)
(* are in the print document.                                              *)
(***************************************************************************)
LabelsOf(doc, row) ==
    SelectSeq(CommunityText(doc, row).children,
              LAMBDA e : e.data_lot_id = LotId(row))
\* No other record shares the lot id, so that a label found is this lot's.
OnlyRowWithId(i) == \A j \in ValidRows : LotId(LotsRows[j]) = LotId(LotsRows[i]) => j = i

OutsideRows ==
    {i \in ValidRows : /\ LotsRows[i].geometry.kind # "None"
                       /\ ~AnchorInside(LotsRows[i])
                       /\ OnlyRowWithId(i)}
C3_NoLabelButPath(doc) ==
    \A i \in OutsideRows :
        /\ LabelsOf(doc, LotsRows[i]) = <<>>
        /\ PathData(ChildrenTagged(LotGroupOf(doc, LotsRows, i), "path"))
               = ExpectedRings(LotsRows[i].geometry)
C3_PrintMarkers(doc) ==
    \A i \in OutsideRows :
        MarkerClasses(LotGroupOf(doc, LotsRows, i)) = AllMarkerClasses

C3_OutsideCanvas ==
    /\ \A doc \in BuiltDocs : C3_NoLabelButPath(doc)
    /\ svg_print # None => C3_PrintMarkers(svg_print)

(***************************************************************************)
(* C4 -- in both documents every valid lot group holds the constStatus,    *)
(* lotPremium and soldStatus marker groups, and the two documents differ   *)
(* only in the lot fill color.                                             *)
(***************************************************************************)
RECURSIVE Unfilled(_)
Unfilled(e) ==
    IF "children" \in DOMAIN e
    THEN [e EXCEPT !.children = [k \in 1..Len(e.children) |-> Unfilled(e.children[k])]]
    ELSE IF e.tag = "path" /\ "stroke" \in DOMAIN e THEN [e EXCEPT !.fill = ""]
    ELSE e

C4_BothHaveMarkers ==
    /\ \A doc \in BuiltDocs : \A i \in ValidRows :
           MarkerClasses(LotGroupOf(doc, LotsRows, i)) = AllMarkerClasses
    /\ (svg_print # None /\ svg_digital # None)
       => Unfilled(svg_print) = Unfilled(svg_digital)

(***************************************************************************)
(* C5 -- for every valid lot with community C and lot job J the document   *)
(* has a group "C-lots" in the lots container holding a sub-group "C-J"    *)
(* with the lot's path, and when the anchor is inside the canvas the group *)
(* "C-text" holds a label with data-lot-id "C-J".  As stated the label     *)
(* text is the legal-lot attribute; as corrected it is the legal-lot       *)
(* attribute, or "N/A" when that attribute is empty.                       *)
(***************************************************************************)
NotAvailable == <<"N", "/", "A">>
C5_Doc(doc, fallback) ==
    \A i \in ValidRows :
        /\ HasGroup(doc, id_lots)
        /\ HasGroup(GroupWithId(doc, id_lots), strip(LotsRows[i].community) \o suffix_lots)
        /\ LotGroupOf(doc, LotsRows, i).id = LotId(LotsRows[i])
        /\ PathData(ChildrenTagged(LotGroupOf(doc, LotsRows, i), "path"))
               = ExpectedRings(LotsRows[i].geometry)
        /\ AnchorInside(LotsRows[i])
           => /\ HasGroup(doc, id_text)
              /\ HasGroup(GroupWithId(doc, id_text),
                          strip(LotsRows[i].community) \o suffix_text)
              /\ \E k \in 1..Len(LabelsOf(doc, LotsRows[i])) :
                     LabelsOf(doc, LotsRows[i])[k].text =
                         IF strip(LotsRows[i].legal_lot) = <<>> THEN fallback
                         ELSE strip(LotsRows[i].legal_lot)

C5_LabelIsLegalLot == \A doc \in BuiltDocs : C5_Doc(doc, <<>>)
C5_LabelOrNotAvailable == \A doc \in BuiltDocs : C5_Doc(doc, NotAvailable)

\* A built document with a valid lot inside the canvas and no legal lot.
C5_Witness ==
    /\ svg_digital # None
    /\ \E i \in ValidRows :
          /\ strip(LotsRows[i].legal_lot) = <<>>
          /\ AnchorInside(LotsRows[i])
          /\ \E k \in 1..Len(LabelsOf(svg_digital, LotsRows[i])) :
                 LabelsOf(svg_digital, LotsRows[i])[k].text = NotAvailable

(***************************************************************************)
(* C6 -- when each of the four layer collections is empty or absent the    *)
(* run ends with the empty-input error, raised before any write: neither   *)
(* file is written and no document is built.                               *)
(***************************************************************************)
AllLayersEmpty ==
    \A layer \in {input.lots, input.grass, input.water, input.road} :
        ~layer.present \/ layer.rows = <<>>

C6_EmptyInputFails ==
    AllLayersEmpty =>
        /\ pc \in {"start", "failed"}
        /\ pc = "failed" => error = "ValueError"
        /\ disk.print = None /\ disk.digital = None
        /\ svg_print = None /\ svg_digital = None

\* The run has failed on an input with an empty lots frame and no file.
C6_Witness ==
    /\ AllLayersEmpty
    /\ input.lots.present /\ ~input.road.present
    /\ pc = "failed" /\ error = "ValueError"
    /\ disk.print = None /\ disk.digital = None

(***************************************************************************)
(* C7 -- the fitted scale and the projected bounding box.                  *)
(***************************************************************************)
NearCanvas(p, w, h, k) ==
    /\ 0 - k * Ulp(w) <= p[1] /\ p[1] <= w + k * Ulp(w)
    /\ 0 - k * Ulp(h) <= p[2] /\ p[2] <= h + k * Ulp(h)

ScaleIsMin ==
    fit.scale = FMin(FDiv(args.canvas_width, FSub(args.maxx, args.minx)),
                     FDiv(args.canvas_height, FSub(args.maxy, args.miny)))

\* C7 as stated: for every bounding box of positive width and height and
\* every canvas, the fitted scale is min(canvasWidth/geomWidth,
\* canvasHeight/geomHeight), the four projected corners of the box lie
\* inside [0, canvasWidth] x [0, canvasHeight], and the padding is zero on
\* at least one axis.
C7_FitExact ==
    proj # None =>
        /\ ScaleIsMin
        /\ \A i \in 1..4 : InCanvas(proj.corners[i], args.canvas_width, args.canvas_height)
        /\ (fit.x_padding = 0 \/ fit.y_padding = 0)

\* C7 amended: the scale is the smaller of the two computed quotients, and
\* the corners lie inside the canvas, and the padding on one axis is zero,
\* up to floating-point rounding: within one unit in the last place of the
\* canvas dimension on that axis.
C7_FitWithinRounding ==
    proj # None =>
        /\ ScaleIsMin
        /\ \A i \in 1..4 : NearCanvas(proj.corners[i], args.canvas_width, args.canvas_height, 1)
        /\ \/ Abs(fit.x_padding) <= Ulp(args.canvas_width)
           \/ Abs(fit.y_padding) <= Ulp(args.canvas_height)

C7_Witness ==
    /\ proj # None
    /\ fit.x_padding # 0 /\ fit.y_padding # 0
    /\ \E i \in 1..4 : ~InCanvas(proj.corners[i], args.canvas_width, args.canvas_height)

(***************************************************************************)
(* C8 -- the projection formula, and the two projections agree.            *)
(***************************************************************************)
\* C8: project(x, maxY).y = yPadding and project(minX, y).x = xPadding for
\* every x and y, and the projection write_polygon applies to a vertex
\* equals the projection transform_coords applies to a centroid.
C8_ProjectionAgrees ==
    proj # None =>
        /\ proj.top[2] = fit.y_padding
        /\ proj.left[1] = fit.x_padding
        /\ proj.vertex = proj.centroid

C8_Witness ==
    /\ proj # None
    /\ args.x # args.minx /\ args.y # args.maxy
    /\ proj.vertex = proj.centroid
    /\ proj.centroid[1] # fit.x_padding /\ proj.centroid[2] # fit.y_padding

(***************************************************************************)
(* C9 -- Swap invoked while the number of selected markers is not exactly  *)
(* two leaves every marker's on-screen position and every circle cx/cy of  *)
(* the document unchanged and reports the selection error to the user.     *)
(***************************************************************************)
ScreenCentres(gs) ==
    [i \in {k \in 1..Len(gs) : gs[k].dot.in_scene} |-> dot_center(gs[i].dot)]
CircleCentres(gs) == [i \in 1..Len(gs) |-> <<gs[i].circle.cx, gs[i].circle.cy>>]

C9_SwapRejectsSelection ==
    [][(swap_selected_dots /\ Cardinality(selected_dots) # 2)
       => /\ ScreenCentres(groups') = ScreenCentres(groups)
          /\ CircleCentres(groups') = CircleCentres(groups)
          /\ report' = "Swap Error"]_vars

(***************************************************************************)
(* C10 -- Swap with exactly two markers selected leaves each of the two    *)
(* centred, on screen and in the document, where the other was centred,    *)
(* leaves every other marker unchanged and keeps each marker's class.      *)
(***************************************************************************)
C10_SwapExchanges ==
    [][(swap_selected_dots /\ Cardinality(selected_dots) = 2)
       => \A a, b \in selected_dots :
             a # b =>
                /\ dot_center(groups'[a].dot) = dot_center(groups[b].dot)
                /\ <<groups'[a].circle.cx, groups'[a].circle.cy>> = dot_center(groups[b].dot)
                /\ groups'[a].class = groups[a].class
                /\ \A k \in 1..Len(groups) :
                      k \notin selected_dots => groups'[k] = groups[k]]_vars

(***************************************************************************)
(* Reading the entries of a session, for the properties below.  Two        *)
(* coordinates are close when they differ by at most EditSlack units: the  *)
(* rounding of the few additions a save performs.                          *)
(***************************************************************************)
EditSlack == 4 * Ulp(Num(2 * EditCanvas))
Close(a, b) == Abs(a - b) <= EditSlack
ClosePt(p, q) == Close(p[1], q[1]) /\ Close(p[2], q[2])
ClosePts(ps, qs) == Len(ps) = Len(qs) /\ \A i \in 1..Len(ps) : ClosePt(ps[i], qs[i])
CloseAll(xs, ys) == Len(xs) = Len(ys) /\ \A i \in 1..Len(xs) : Close(xs[i], ys[i])

\* The entry new holds the coordinates of the entry old moved by d.
EntryMovedBy(new, old, d) ==
    /\ ClosePt(<<new.circle.cx, new.circle.cy>>,
               translate(<<old.circle.cx, old.circle.cy>>, d[1], d[2]))
    /\ old.text # None =>
          ClosePt(new.text.transform, translate(old.text.transform, d[1], d[2]))
    /\ old.polygon # None =>
          ClosePts(new.polygon.points, translate_all(old.polygon.points, d[1], d[2]))
    /\ old.path # None =>
          /\ ClosePts(new.path.d.points, translate_all(old.path.d.points, d[1], d[2]))
          /\ CloseAll(new.path.d.v, [i \in 1..Len(old.path.d.v) |-> FAdd(old.path.d.v[i], d[2])])

moved_dots == {i \in in_scene : groups[i].dot.pos # <<0, 0>>}

(***************************************************************************)
(* C11 -- With a document loaded and exactly one marker repositioned by    *)
(* (dx, dy), the first Save moves that marker's circle, label, star and    *)
(* house path by (dx, dy), up to rounding, and moves no other marker of    *)
(* the document.                                                           *)
(***************************************************************************)
C11_SaveMovesOneMarker ==
    [][(save_changes /\ saves = 0 /\ Cardinality(moved_dots) = 1)
       => \A i \in in_scene :
             EntryMovedBy(groups'[i], groups[i], groups[i].dot.pos)]_vars

(***************************************************************************)
(* C12 -- Save with no marker moved since the load writes back, for every  *)
(* marker, the circle, label, star and icon coordinates the conversion     *)
(* wrote.                                                                  *)
(***************************************************************************)
PipelineFiles == {"digital", "print", "edge"}
Coordinates(e) ==
    [circle |-> <<e.circle.cx, e.circle.cy>>,
     text |-> IF e.text = None THEN None ELSE [at |-> e.text.transform],
     polygon |-> IF e.polygon = None THEN None ELSE [points |-> e.polygon.points],
     path |-> IF e.path = None THEN None ELSE [points |-> e.path.d.points, v |-> e.path.d.v]]
AsConverted == loads > 0 /\ svg_file \in PipelineFiles /\ root = load_marks(EditFiles[svg_file])

C12_SaveWithoutMoveKeeps ==
    [][(save_changes /\ AsConverted /\ moved_dots = {} /\ report' = "Success")
       => \A i \in in_scene : Coordinates(groups'[i]) = Coordinates(groups[i])]_vars

(***************************************************************************)
(* C13 -- Every editor operation is atomic on the document in memory: one  *)
(* that raises leaves the document as it was, and none ends with a         *)
(* marker's circle moved while its label, star or icon stayed behind.      *)
(***************************************************************************)
Raised == {"ValueError", "AttributeError", "RuntimeError"}
CircleDelta(new, old) ==
    <<FSub(new.circle.cx, old.circle.cx), FSub(new.circle.cy, old.circle.cy)>>

C13_OperationsAtomic ==
    [][/\ report' \in Raised => root' = root
       /\ \A i \in 1..Len(groups) :
             EntryMovedBy(groups'[i], groups[i], CircleDelta(groups'[i], groups[i]))]_vars

(***************************************************************************)
(* C14 -- A load or a save that fails is reported in a message box; no     *)
(* exception leaves the handler, whatever the state of the editor.         *)
(***************************************************************************)
Unhandled == Raised \cup {"OSError"}

\* A step of Open SVG File, of Save Changes: the only ones that count up
\* loads and saves.
LoadStep == loads' = loads + 1 /\ open_new_file
SaveStep == saves' = saves + 1 /\ save_changes

C14_FailuresReported ==
    [][(LoadStep \/ SaveStep) => report' \notin Unhandled]_vars

(***************************************************************************)
(* C15 -- A run that got past the empty-input check ends with both output  *)
(* files written, the print file and the digital file; it never ends with  *)
(* one of them alone, or with none.                                        *)
(***************************************************************************)
RunEnded == pc \in {"done", "failed"}
PassedEmptyCheck == fit # None

C15_TwoFilesPerRun ==
    (RunEnded /\ PassedEmptyCheck) => (disk.print # None /\ disk.digital # None)

(***************************************************************************)
(* C16 -- In every generated document the background container comes      *)
(* first, then the lots container, then the text container; inside the     *)
(* background container the groups of the layers that have records stand   *)
(* in the order road, grass, lakes, whichever layers are empty.            *)
(***************************************************************************)
Ids(children) == [i \in 1..Len(children) |-> children[i].id]
InOrder(ids, canon) ==
    /\ \A i \in 1..Len(ids) : Contains(canon, ids[i])
    /\ \A i, j \in 1..Len(ids) : i < j => IndexOf(canon, ids[i]) < IndexOf(canon, ids[j])
C16_Doc(doc) ==
    /\ doc.children # <<>>
    /\ doc.children[1].id = id_open_roads
    /\ InOrder(Ids(doc.children), <<id_open_roads, id_lots, id_text>>)
    /\ non_empty(input.lots) => Ids(doc.children) = <<id_open_roads, id_lots, id_text>>
    /\ InOrder(Ids(doc.children[1].children), <<id_road, id_grass, id_lakes>>)
    /\ non_empty(input.road) => Contains(Ids(doc.children[1].children), id_road)
    /\ non_empty(input.grass) => Contains(Ids(doc.children[1].children), id_grass)
    /\ non_empty(input.water) => Contains(Ids(doc.children[1].children), id_lakes)

C16_LayerOrder == \A doc \in BuiltDocs : C16_Doc(doc)

\* Both documents of a run with records in all four layers are built.
C16_Witness ==
    /\ pc = "done"
    /\ non_empty(input.lots) /\ non_empty(input.road)
    /\ non_empty(input.grass) /\ non_empty(input.water)
    /\ Ids(svg_digital.children[1].children) = <<id_road, id_grass, id_lakes>>

(***************************************************************************)
(* C17 -- The lots container holds exactly one group "<id>-lots", and the  *)
(* text container exactly one group "<id>-text", for each community id     *)
(* that has a valid lot, in the order in which those ids first occur among *)
(* the valid lots; every valid lot of a community is drawn in the one      *)
(* group of its community.                                                 *)
(***************************************************************************)
RECURSIVE FirstSeen(_, _)
FirstSeen(rows, seen) ==
    IF rows = <<>> THEN seen
    ELSE FirstSeen(Tail(rows),
                   IF ValidRow(Head(rows)) /\ ~Contains(seen, strip(Head(rows).community))
                   THEN Append(seen, strip(Head(rows).community)) ELSE seen)
Communities == FirstSeen(LotsRows, <<>>)
LotsOfCommunity(id) ==
    Cardinality({i \in ValidRows : strip(LotsRows[i].community) = id})
C17_Doc(doc) ==
    /\ Ids(CommunityGroups(GroupWithId(doc, id_lots)))
          = [k \in 1..Len(Communities) |-> Communities[k] \o suffix_lots]
    /\ Ids(CommunityGroups(GroupWithId(doc, id_text)))
          = [k \in 1..Len(Communities) |-> Communities[k] \o suffix_text]
    /\ \A k \in 1..Len(Communities) :
          Len(CommunityGroups(GroupWithId(doc, id_lots))[k].children)
             = LotsOfCommunity(Communities[k])

C17_OneGroupPerCommunity == \A doc \in BuiltDocs : C17_Doc(doc)

\* A list in which a lot of the first community follows a lot of the second.
C17_Witness ==
    /\ svg_print # None
    /\ Len(Communities) = 2
    /\ \E i, j \in ValidRows :
          /\ i < j
          /\ strip(LotsRows[i].community) = Communities[2]
          /\ strip(LotsRows[j].community) = Communities[1]

(***************************************************************************)
(* C18 -- A Run with a listed path, of any file type, that does not exist  *)
(* shows an error and ends before geojson_to_svg is called: no output file *)
(* is written or changed.                                                  *)
(***************************************************************************)
MissingPaths ==
    {t \in FileTypes : \E i \in 1..Len(file_paths[t]) : ~exists(file_paths[t][i])}

C18_MissingInputAborts ==
    [][(run_conversion /\ MissingPaths # {})
       => /\ message' = "Error"
          /\ pc' = "idle"
          /\ disk' = disk]_vars

\* Such a Run has ended; the missing path is not a lots file.
C18_Witness ==
    /\ message = "Error" /\ pc = "idle"
    /\ MissingPaths # {} /\ "Lots" \notin MissingPaths
    /\ disk.print = None /\ disk.digital = None

(***************************************************************************)
(* C19 -- After any sequence of add, drop, remove and select-output        *)
(* actions the Run button is enabled exactly when the Lots file list is    *)
(* not empty and an output file is selected, and a conversion that writes  *)
(* its output was started with a Lots file list that is not empty.         *)
(***************************************************************************)
RunEnabledRule ==
    run_button <=> (file_paths["Lots"] # <<>> /\ output_file # no_file)
ReachedWrite == pc' = "done"

C19_RunNeedsLotsFile ==
    /\ []RunEnabledRule
    /\ [][(run_conversion /\ ReachedWrite) => file_paths["Lots"] # <<>>]_vars

\* ... was started with a lots collection that is not empty.
C19_RunNeedsLots ==
    /\ []RunEnabledRule
    /\ [][(run_conversion /\ ReachedWrite) => non_empty(input'.lots)]_vars

\* Both files written from a lots file, after a file was removed again.
C19_Witness ==
    /\ run_button /\ pc = "done" /\ message = "Success"
    /\ non_empty(input.lots)
    /\ adds = 2 /\ Len(all_paths(file_paths)) = 1

(***************************************************************************)
(* C20 -- The padding on each axis is (canvasDim - geomDim * scale) / 2,   *)
(* not clamped.  Because the scale is the smaller of the two quotients the *)
(* padding is never negative by more than the rounding of the product:     *)
(* one unit in the last place of the canvas dimension.  A difference       *)
(* between the aspect ratios of geometry and canvas shows as a positive    *)
(* padding on one axis.                                                    *)
(***************************************************************************)
geom_width == FSub(args.maxx, args.minx)
geom_height == FSub(args.maxy, args.miny)
PaddingOf(canvas_dim, geom_dim) ==
    FDiv(FSub(canvas_dim, FMul(geom_dim, fit.scale)), Num(2))
PaddingFormula ==
    /\ fit.x_padding = PaddingOf(args.canvas_width, geom_width)
    /\ fit.y_padding = PaddingOf(args.canvas_height, geom_height)
\* The whole pixels of a coordinate; the inputs of the fitter are whole.
Whole(x) == x \div Pow2(FracBits)
Incompatible ==
    Whole(geom_width) * Whole(args.canvas_height)
        # Whole(geom_height) * Whole(args.canvas_width)

RECURSIVE LayerRings(_)
LayerRings(rows) ==
    IF rows = <<>> THEN <<>>
    ELSE ExpectedRings(Head(rows).geometry) \o LayerRings(Tail(rows))
C21_Layer(doc, gdf, layer_id) ==
    /\ HasGroup(doc.children[1], layer_id) <=> non_empty(gdf)
    /\ non_empty(gdf) =>
          PathData(GroupWithId(doc.children[1], layer_id).children) = LayerRings(gdf.rows)
C21_Doc(doc) ==
    /\ C21_Layer(doc, input.road, id_road)
    /\ C21_Layer(doc, input.grass, id_grass)
    /\ C21_Layer(doc, input.water, id_lakes)
    /\ HasGroup(doc, id_lots) <=> non_empty(input.lots)
    /\ HasGroup(doc, id_text) <=> non_empty(input.lots)

C21_EmptyLayerNoGroup == \A doc \in BuiltDocs : C21_Doc(doc)

\* Both documents built from an empty lots collection, an empty road
\* collection and a grass layer with a record.
C21_Witness ==
    /\ pc = "done"
    /\ input.lots.present /\ ~non_empty(input.lots)
    /\ input.road.present /\ ~non_empty(input.road)
    /\ non_empty(input.grass)
    /\ Ids(svg_digital.children) = <<id_open_roads>>
    /\ Ids(svg_print.children[1].children) = <<id_grass>>

(***************************************************************************)
(* C22 -- In both documents a valid lot has one label when its anchor      *)
(* satisfies 0 <= cx <= width and 0 <= cy <= height, the edges included,   *)
(* and none otherwise.  The label stands in the text group of the lot's    *)
(* community, carries the lot's id, and its text is the legal-lot          *)
(* attribute, or "N/A" when that attribute is empty.  Lots that share an   *)
(* id have their labels in input order.                                    *)
(***************************************************************************)
LabelText(row) ==
    IF strip(row.legal_lot) = <<>> THEN NotAvailable ELSE strip(row.legal_lot)
RECURSIVE LabelTexts(_, _)
LabelTexts(rows, id) ==
    IF rows = <<>> THEN <<>>
    ELSE (IF ValidRow(Head(rows)) /\ LotId(Head(rows)) = id /\ AnchorInside(Head(rows))
          THEN <<LabelText(Head(rows))>> ELSE <<>>)
         \o LabelTexts(Tail(rows), id)
LabelledRows == {i \in ValidRows : AnchorInside(LotsRows[i])}
Texts(labels) == [k \in 1..Len(labels) |-> labels[k].text]
C22_Doc(doc) ==
    /\ \A i \in ValidRows :
          Texts(LabelsOf(doc, LotsRows[i])) = LabelTexts(LotsRows, LotId(LotsRows[i]))
    /\ non_empty(input.lots) =>
          CountChildren(CommunityGroups(GroupWithId(doc, id_text)))
              = Cardinality(LabelledRows)

C22_OneLabelInsideCanvas == \A doc \in BuiltDocs : C22_Doc(doc)

\* Both documents of a run whose lot has its anchor on the left edge of the
\* canvas, cx = 0, and no legal lot: the label is there and reads N/A.
C22_Witness ==
    /\ svg_print # None /\ svg_digital # None
    /\ \E i \in ValidRows :
          /\ Anchor(LotsRows[i])[1] = 0
          /\ Texts(LabelsOf(svg_print, LotsRows[i])) = <<NotAvailable>>
          /\ Texts(LabelsOf(svg_digital, LotsRows[i])) = <<NotAvailable>>

(***************************************************************************)
(* C23 -- However valid and skipped records are interleaved, the           *)
(* geometries of the skipped records are drawn in one group "unused",      *)
(* the last child of the lots container, after the lot group of every      *)
(* community; the group holds paths only, one per ring in input order,     *)
(* and the text container has nothing for it.  Without a skipped record    *)
(* there is no such group.                                                 *)
(***************************************************************************)
UnusedAt(container) ==
    {k \in 1..Len(container.children) : container.children[k].id = id_unused}
C23_Doc(doc) ==
    /\ UnusedAt(GroupWithId(doc, id_text)) = {}
    /\ Len(GroupWithId(doc, id_text).children)
           = Len(CommunityGroups(GroupWithId(doc, id_text))) + 1
    /\ IF InvalidRows = {} THEN UnusedAt(GroupWithId(doc, id_lots)) = {}
       ELSE /\ UnusedAt(GroupWithId(doc, id_lots))
                  = {Len(GroupWithId(doc, id_lots).children)}
            /\ Len(CommunityGroups(GroupWithId(doc, id_lots)))
                  = Len(GroupWithId(doc, id_lots).children) - 1
            /\ \A k \in 1..Len(GroupWithId(GroupWithId(doc, id_lots), id_unused).children) :
                  GroupWithId(GroupWithId(doc, id_lots), id_unused).children[k].tag = "path"
            /\ PathData(GroupWithId(GroupWithId(doc, id_lots), id_unused).children)
                  = InvalidRings(LotsRows)

C23_UnusedGroupLast ==
    \A doc \in BuiltDocs : non_empty(input.lots) => C23_Doc(doc)

\* A document built from a list that starts with a skipped record and has
\* another one behind a valid lot.
C23_Witness ==
    /\ svg_print # None
    /\ 1 \in InvalidRows
    /\ \E j \in ValidRows : \E k \in InvalidRows : j < k
    /\ HasGroup(GroupWithId(svg_print, id_lots), id_unused)

(***************************************************************************)
(* C24 -- The print and the digital document of a run differ only in the   *)
(* status markers and in the fill of the lot paths: with the marker groups *)
(* taken out and the fills blanked the two are the same document -- the    *)
(* same groups with the same ids in the same order, the same paths, the    *)
(* same labels with the same position and styling.                         *)
(***************************************************************************)
IsMarkers(e) == e.tag = "g" /\ e.id = NoId
RECURSIVE WithoutMarkers(_)
WithoutMarkers(e) ==
    IF "children" \in DOMAIN e
    THEN [e EXCEPT !.children =
            [k \in 1..Len(SelectSeq(e.children, LAMBDA c : ~IsMarkers(c))) |->
                WithoutMarkers(SelectSeq(e.children, LAMBDA c : ~IsMarkers(c))[k])]]
    ELSE e

C24_VariantsAgree ==
    (svg_print # None /\ svg_digital # None)
    => Unfilled(WithoutMarkers(svg_print)) = Unfilled(WithoutMarkers(svg_digital))

(***************************************************************************)
(* C25 -- Auto Arrange Dots on a document as the conversion wrote it puts  *)
(* the markers of a lot on the inset corners of the lot's bounding box     *)
(* that lie strictly inside the lot polygon: the first such corner takes   *)
(* the constStatus marker, the second lotPremium, the third soldStatus;    *)
(* a marker for which no corner is left stays where it is.                 *)
(***************************************************************************)
\* The lot group of a marker: above the marker group and its container.
LotOf(doc, entry) == elem_at(doc, SubSeq(entry.at, 1, Len(entry.at) - 2))
Candidates(doc, entry) == valid_positions(first_child(LotOf(doc, entry), "path").d)
CircleAt(doc, entry) ==
    <<first_child(elem_at(doc, entry.at), "circle").cx,
      first_child(elem_at(doc, entry.at), "circle").cy>>
ArrangedAt(new, old, entry) ==
    IF IndexOf(dot_classes, entry.class) <= Len(Candidates(old, entry))
    THEN CircleAt(new, entry) = Candidates(old, entry)[IndexOf(dot_classes, entry.class)]
    ELSE CircleAt(new, entry) = CircleAt(old, entry)

C25_ArrangedOnCorners ==
    [][(AsConverted /\ report' = "Auto Arrange" /\ auto_arrange_dots)
       => \A i \in in_scene : ArrangedAt(root', root, groups[i])]_vars

(***************************************************************************)
(* C26 -- Whatever files are added, dropped and removed, every category    *)
(* lists each path at most once, in its list widget and in its stored path *)
(* list, and a drop adds only paths that end in .geojson (in any case of   *)
(* the letters, as the test of line 45 reads them).                        *)
(***************************************************************************)
ListedOnce(l) == \A i, j \in 1..Len(l) : l[i] = l[j] => i = j
DropStep == adds' = adds + 1 /\ dropEvent
Appended(old, new) == SubSeq(new, Len(old) + 1, Len(new))
DropAddsGeojsonOnly ==
    \A t \in FileTypes :
       /\ \A p \in Range(Appended(file_paths[t], file_paths'[t])) : endswith(lower(p), ext_geojson)
       /\ \A p \in Range(Appended(file_list_widgets[t], file_list_widgets'[t])) : endswith(lower(p), ext_geojson)

C26_PathsListedOnce ==
    /\ [](\A t \in FileTypes : ListedOnce(file_list_widgets[t]) /\ ListedOnce(file_paths[t]))
    /\ [][DropStep => DropAddsGeojsonOnly]_vars

\* The part of C26 about the extension alone.
C26_DropsGeojsonOnly == [][DropStep => DropAddsGeojsonOnly]_vars

(***************************************************************************)
(* C27 -- Whatever drags, swaps and auto-arranges came before it, a Save   *)
(* leaves the label, the star and the house path of every marker at the    *)
(* offset from the marker's circle, up to rounding, that they had in the   *)
(* document as it was loaded.  Stated for the first Save of a session with *)
(* one load, where the loaded document is the file as it was opened.       *)
(***************************************************************************)
LoadedEntry(i) == load_groups(load_marks(EditFiles[svg_file]), 1)[i]

C27_OffsetsKept ==
    [][(SaveStep /\ loads = 1 /\ saves = 0 /\ report' = "Success")
       => \A i \in in_scene :
             EntryMovedBy(groups'[i], LoadedEntry(i),
                          CircleDelta(groups'[i], LoadedEntry(i)))]_vars

\* The same on the documents the conversion wrote.
C27_OffsetsKeptAsConverted ==
    [][(SaveStep /\ loads = 1 /\ saves = 0 /\ report' = "Success" /\ svg_file \in PipelineFiles)
       => \A i \in in_scene :
             EntryMovedBy(groups'[i], LoadedEntry(i),
                          CircleDelta(groups'[i], LoadedEntry(i)))]_vars

(***************************************************************************)
(* C28 -- Whatever files were opened in the session, the list of editable  *)
(* marker groups holds one entry for every marker circle of the document   *)
(* now loaded and nothing else: no entry of a document loaded before, and  *)
(* no entry whose dot was removed from the scene.                          *)
(***************************************************************************)
MarkerPlaces(doc) ==
    {all_groups(doc, <<>>)[k].at : k \in {j \in 1..Len(all_groups(doc, <<>>)) :
        /\ all_groups(doc, <<>>)[j].elem.class \in DOMAIN color_map
        /\ first_child(all_groups(doc, <<>>)[j].elem, "circle") # None}}

C28_GroupsOfCurrentDocument ==
    root # None =>
       /\ {groups[i].at : i \in 1..Len(groups)} = MarkerPlaces(root)
       /\ \A i, j \in 1..Len(groups) : groups[i].at = groups[j].at => i = j
       /\ \A i \in 1..Len(groups) : groups[i].dot.in_scene

(***************************************************************************)
(* C29 -- A Save of a generated document that was loaded and not edited    *)
(* writes the document as it was in the file: the same elements with the   *)
(* same attributes and coordinates.  A further Save with no edit since     *)
(* the last one writes the same document again.                            *)
(***************************************************************************)
FirstSaveKeepsFile ==
    (SaveStep /\ AsConverted /\ saves = 0 /\ moved_dots = {} /\ report' = "Success")
       => svg_files'[svg_file] = EditFiles[svg_file]
NextSaveKeepsFile ==
    (SaveStep /\ loads > 0 /\ saves > 0 /\ svg_file \in PipelineFiles
        /\ drags = 0 /\ root = svg_files[svg_file] /\ report' = "Success")
       => svg_files'[svg_file] = svg_files[svg_file]

C29_SaveWithoutEditKeepsDocument ==
    [][FirstSaveKeepsFile /\ NextSaveKeepsFile]_vars

\* The second half of C29 alone.
C29_SecondSaveSame == [][NextSaveKeepsFile]_vars

(***************************************************************************)
(* C30 -- In every generated document each lot record is drawn in one      *)
(* place only.  A valid record has one lot sub-group, in the lot-group of  *)
(* its own community, holding the paths of its geometry; an invalid record *)
(* has its paths in the group "unused" and no sub-group; the lots          *)
(* container holds no other path, the text container holds none, and the   *)
(* lot sub-groups are as many as the valid records.                        *)
(***************************************************************************)
\* The paths below e, in document order, markers and compass left out.
RECURSIVE PathsBelow(_), PathsIn(_, _)
PathsIn(children, k) ==
    IF k > Len(children) THEN <<>>
    ELSE (IF children[k].tag = "path" THEN <<children[k].d>>
          ELSE IF children[k].tag = "g" /\ ~IsMarkers(children[k])
                  /\ children[k].id # id_compass_rose
          THEN PathsBelow(children[k]) ELSE <<>>)
         \o PathsIn(children, k + 1)
PathsBelow(e) == PathsIn(e.children, 1)

RECURSIVE AllRings(_)
AllRings(rows) ==
    IF rows = <<>> THEN 0 ELSE Len(ExpectedRings(Head(rows).geometry)) + AllRings(Tail(rows))

C30_Doc(doc) ==
    /\ CountChildren(CommunityGroups(GroupWithId(doc, id_lots))) = Cardinality(ValidRows)
    /\ Len(GroupWithId(doc, id_lots).children)
          = Len(Communities) + (IF InvalidRows # {} THEN 1 ELSE 0)
    /\ \A i \in ValidRows :
          /\ Len(CommunityLots(doc, LotsRows[i]).children)
                = LotsOfCommunity(strip(LotsRows[i].community))
          /\ LotGroupOf(doc, LotsRows, i).id = LotId(LotsRows[i])
          /\ PathsBelow(LotGroupOf(doc, LotsRows, i)) = ExpectedRings(LotsRows[i].geometry)
    /\ InvalidRows # {} =>
          /\ HasGroup(GroupWithId(doc, id_lots), id_unused)
          /\ \A k \in 1..Len(GroupWithId(GroupWithId(doc, id_lots), id_unused).children) :
                GroupWithId(GroupWithId(doc, id_lots), id_unused).children[k].tag = "path"
          /\ PathsBelow(GroupWithId(GroupWithId(doc, id_lots), id_unused))
                = InvalidRings(LotsRows)
    /\ Len(PathsBelow(GroupWithId(doc, id_lots))) = AllRings(LotsRows)
    /\ PathsBelow(GroupWithId(doc, id_text)) = <<>>

C30_EachRecordOnce ==
    \A doc \in BuiltDocs : non_empty(input.lots) => C30_Doc(doc)

\* Both documents of a run with a valid and a skipped record of different
\* shapes in one community.
C30_Witness ==
    /\ pc = "done" /\ svg_print # None /\ svg_digital # None
    /\ \E i \in ValidRows, j \in InvalidRows :
          /\ strip(LotsRows[i].community) = strip(LotsRows[j].community)
          /\ LotsRows[i].geometry # LotsRows[j].geometry
          /\ LotsRows[j].geometry.kind # "None"
          /\ Len(PathsBelow(GroupWithId(svg_digital, id_lots))) = 2

====
